---- MODULE Spec2Model ----
(***************************************************************************)
(* Student result management (src/app.py): the relational store, the      *)
(* browser sessions, the worker's SQLAlchemy session and the request      *)
(* handlers, plus the grading function compute_totals.                    *)
(*                                                                         *)
(* Conventions.                                                            *)
(*  - Python None is NULL for strings and 0 for integer ids (ids start at *)
(*    1, and the code tests ids by truthiness).                            *)
(*  - The store is SQLite reached through SQLAlchemy: INTEGER PRIMARY KEY *)
(*    columns get max(id)+1 on insert, foreign keys are declared but not  *)
(*    enforced (no PRAGMA foreign_keys), unique constraints are enforced  *)
(*    with NULLs counted distinct.                                         *)
(*  - One request is one atomic step, served by one worker thread whose   *)
(*    scoped session (SessionLocal) is never removed between requests.    *)
(*  - An optional value is a set with at most one element.                *)
(***************************************************************************)
EXTENDS Integers, Sequences, FiniteSets, TLC

VARIABLES classes, students, subjects, results, users,
          sessions, dbs, resp, gin, gout, inflight

store == <<classes, students, subjects, results, users>>
vars == <<classes, students, subjects, results, users, sessions, dbs, resp, gin, gout,
          inflight>>

(***************************************************************************)
(* Bounds of the model                                                     *)
(***************************************************************************)
MaxClassId == 2
MaxStudentId == 2
MaxSubjectId == 2
MaxResultId == 2
MaxUserId == 2
MaxFileRows == 2
MaxPending == 1
MaxGradeLen == 2

NULL == "NULL"

Browsers == {"b1", "b2"}

Max(S) == CHOOSE x \in S : \A y \in S : y <= x

(***************************************************************************)
(* Form and CSV fields arrive as strings; int() / type=int parse them.     *)
(***************************************************************************)
IntOf == ("0" :> 0) @@ ("1" :> 1) @@ ("2" :> 2) @@ ("100" :> 100)
\* str(n), as csv.writer writes an integer cell
StrOf(n) == CHOOSE s \in DOMAIN IntOf : IntOf[s] = n
IsInt(s) == s \in DOMAIN IntOf
\* request.form.get(k, type=int): the integer, or None (no element) when
\* the field is missing or not an integer
FormInt(s) == IF IsInt(s) THEN {IntOf[s]} ELSE {}

(***************************************************************************)
(* The relational store (models, lines 63-108)                             *)
(***************************************************************************)
\* rows: ClassRoom [id, name, section]; Student [id, reg_no, name, email,
\* password_hash, class_id, uid]; Subject [id, name, class_id];
\* Result [id, student_id, subject_id, marks, max_marks];
\* AdminUser [id, username, password_hash, role].
\* Student.uid is a history field: the identity of the row, which the id
\* does not carry because SQLite hands a deleted row's id out again.
DB == [classes |-> classes, students |-> students, subjects |-> subjects,
       results |-> results, users |-> users]

\* SQLite rowid for INTEGER PRIMARY KEY without AUTOINCREMENT
NextId(T) == IF T = {} THEN 1 ELSE Max({t.id : t \in T}) + 1

\* a uid no student row and no session refers to
FreshUid(T) ==
    LET used == {t.uid : t \in T} \cup {sessions[b].auth_uid : b \in Browsers}
    IN CHOOSE n \in 1..(Cardinality(used) + 1) : n \notin used

\* generate_password_hash / check_password_hash: the hash stands for the
\* password it was made from
generate_password_hash(pw) == pw
check_password_hash(h, pw) == h = pw

\* the constraints without UNIQUE on students.reg_no
ViolatesButRegNo(k, T, r) ==
    CASE k = "class" ->
            \/ r.name = NULL
            \/ r.section # NULL /\ \E x \in T : x.name = r.name /\ x.section = r.section
      [] k = "student" ->
            \/ r.reg_no = NULL \/ r.name = NULL
            \/ r.email # NULL /\ \E x \in T : x.email = r.email
      [] k = "subject" ->
            \E x \in T : x.name = r.name /\ x.class_id = r.class_id
      [] k = "result" ->
            \E x \in T : x.student_id = r.student_id /\ x.subject_id = r.subject_id
      [] k = "user" ->
            \E x \in T : x.username = r.username

\* the constraints without UNIQUE on results (student_id, subject_id)
ViolatesButResultPair(k, T, r) ==
    CASE k = "class" ->
            \/ r.name = NULL
            \/ r.section # NULL /\ \E x \in T : x.name = r.name /\ x.section = r.section
      [] k = "student" ->
            \/ r.reg_no = NULL \/ r.name = NULL
            \/ \E x \in T : x.reg_no = r.reg_no
            \/ r.email # NULL /\ \E x \in T : x.email = r.email
      [] k = "subject" ->
            \E x \in T : x.name = r.name /\ x.class_id = r.class_id
      [] k = "result" -> FALSE
      [] k = "user" ->
            \E x \in T : x.username = r.username
\* the INSERT of row r into table T of kind k raises IntegrityError
\* (NOT NULL and UNIQUE constraints of the models; NULLs never collide)
Violates(k, T, r) ==
    CASE k = "class" ->
            \/ r.name = NULL
            \/ r.section # NULL /\ \E x \in T : x.name = r.name /\ x.section = r.section
      [] k = "student" ->
            \/ r.reg_no = NULL \/ r.name = NULL
            \/ \E x \in T : x.reg_no = r.reg_no
            \/ r.email # NULL /\ \E x \in T : x.email = r.email
      [] k = "subject" ->
            \E x \in T : x.name = r.name /\ x.class_id = r.class_id
      [] k = "result" ->
            \E x \in T : x.student_id = r.student_id /\ x.subject_id = r.subject_id
      [] k = "user" ->
            \E x \in T : x.username = r.username

WithId(k, T, r) ==
    IF k = "student"
    THEN [id |-> NextId(T), reg_no |-> r.reg_no, name |-> r.name, email |-> r.email,
          password_hash |-> r.password_hash, class_id |-> r.class_id, uid |-> FreshUid(T)]
    ELSE [id |-> NextId(T)] @@ r

\* INSERT the pending rows of one kind in the order they were added
RECURSIVE InsertSeq(_, _, _)
InsertSeq(k, T, seq) ==
    IF seq = <<>> THEN [ok |-> TRUE, rows |-> T]
    ELSE IF Violates(k, T, Head(seq)) THEN [ok |-> FALSE, rows |-> T]
    ELSE InsertSeq(k, T \cup {WithId(k, T, Head(seq))}, Tail(seq))

\* the UPDATE of the dirty Result objects
ApplyDirty(R, dirty) ==
    {IF \E d \in dirty : d.id = r.id
     THEN LET d == CHOOSE d \in dirty : d.id = r.id
          IN [r EXCEPT !.marks = d.marks, !.max_marks = d.max_marks]
     ELSE r : r \in R}

NoDel == [classes |-> {}, students |-> {}, subjects |-> {}, results |-> {}, users |-> {}]
NoNew == [classes |-> <<>>, students |-> <<>>, subjects |-> <<>>, results |-> <<>>, users |-> <<>>]

\* Session.flush(): the unit of work writes the pending inserts (parents
\* before children), the updates, then the deletes; the first constraint
\* violation fails the whole flush
Flush(db, new, dirty, del) ==
    LET c == InsertSeq("class", db.classes, new.classes)
        s == InsertSeq("student", db.students, new.students)
        j == InsertSeq("subject", db.subjects, new.subjects)
        u == InsertSeq("user", db.users, new.users)
        r == InsertSeq("result", db.results, new.results)
    IN IF c.ok /\ s.ok /\ j.ok /\ u.ok /\ r.ok
       THEN [ok |-> TRUE,
             db |-> [classes  |-> {x \in c.rows : x.id \notin del.classes},
                     students |-> {x \in s.rows : x.id \notin del.students},
                     subjects |-> {x \in j.rows : x.id \notin del.subjects},
                     results  |-> {x \in ApplyDirty(r.rows, dirty) : x.id \notin del.results},
                     users    |-> {x \in u.rows : x.id \notin del.users}]]
       ELSE [ok |-> FALSE, db |-> db]

InBounds(db) ==
    /\ \A x \in db.classes : x.id <= MaxClassId
    /\ \A x \in db.students : x.id <= MaxStudentId
    /\ \A x \in db.subjects : x.id <= MaxSubjectId
    /\ \A x \in db.results : x.id <= MaxResultId
    /\ \A x \in db.users : x.id <= MaxUserId

(***************************************************************************)
(* Browser sessions, the worker's database session, responses              *)
(***************************************************************************)
\* sessions[b]: the signed cookie of browser b.  auth_uid and admin_name
\* are history fields, not in the cookie: the uid of the student row that
\* student_login authenticated, the username that admin_login authenticated.
NoSession == [admin_logged_in |-> FALSE, admin_role |-> NULL, student_id |-> 0, auth_uid |-> 0,
              admin_name |-> NULL]

\* dbs: what the thread-scoped SessionLocal carries from one request to the
\* next: failed = the transaction was rolled back by a failed flush and
\* rollback() was not called; new = Result objects added but not flushed;
\* dirty = [id, marks, max_marks] of Result objects modified but not flushed
Clean == [failed |-> FALSE, new |-> <<>>, dirty |-> {}]
Failed == [failed |-> TRUE, new |-> <<>>, dirty |-> {}]

\* a later modification of the same object replaces the earlier one
MergeDirty(old, upd) == {d \in old : \A e \in upd : e.id # d.id} \cup upd

\* what a query for Result rows hands back: the rows of the database as
\* the identity map shows them (unflushed modifications included; with
\* autoflush=False the pending objects are not)
ViewResults == ApplyDirty(results, dbs.dirty)

\* db.commit(): flush what this request and the earlier ones left pending
Commit(new, dirty, del) ==
    IF dbs.failed THEN [ok |-> FALSE, db |-> DB]
    ELSE Flush(DB, [new EXCEPT !.results = dbs.new \o new.results],
               MergeDirty(dbs.dirty, dirty), del)

SetStore(db) ==
    /\ classes' = db.classes
    /\ students' = db.students
    /\ subjects' = db.subjects
    /\ results' = db.results
    /\ users' = db.users

Response(op, b, status, to, flash) ==
    [op |-> op, b |-> b, status |-> status, to |-> to, flash |-> flash,
     student |-> {}, rows |-> {}, totals |-> <<>>, csv |-> <<>>, count |-> 0]

Redirect(op, b, to, flash) == Response(op, b, 302, to, flash)
\* abort(code), or an exception that leaves the view
Abort(op, b, code) == Response(op, b, code, "", "")
Fault(op, b) == Abort(op, b, 500)

\* a handler that ends without touching the database session
Reply(r) == /\ resp' = r
            /\ UNCHANGED <<store, dbs>>
\* an exception raised by a query on a failed session, or any other fault
\* that leaves the database session as it was
Crash(op, b) == Reply(Fault(op, b))

\* --- Auth helpers (lines 138-157) ---
is_admin_or_student_logged_in(b) ==
    sessions[b].admin_logged_in = TRUE \/ sessions[b].student_id # 0
is_admin_logged_in(b) == sessions[b].admin_logged_in = TRUE
current_admin_role(b) == sessions[b].admin_role
is_student_logged_in(b) == sessions[b].student_id # 0
current_student_id(b) == sessions[b].student_id

\* require_admin(role): the response it returns; it returns None when both
\* checks pass, and a view that returns None is a fault
require_admin(op, b, role) ==
    IF ~is_admin_logged_in(b)
    THEN Redirect(op, b, "admin_login", "Please login as admin.")
    ELSE IF role # NULL /\ current_admin_role(b) # role /\ current_admin_role(b) # "admin"
    THEN Redirect(op, b, "admin_dashboard", "Insufficient privileges.")
    ELSE Fault(op, b)

\* str.strip() on the strings the model sends
Strip(s) == CASE s = " " -> "" [] s = " r1 " -> "r1" [] s = " admin " -> "admin" [] OTHER -> s
OrNone(s) == IF s = "" THEN NULL ELSE s

(***************************************************************************)
(* Grades (lines 166-179)                                                  *)
(***************************************************************************)
RECURSIVE SumOf(_, _)
SumOf(seq, field) ==
    IF seq = <<>> THEN 0 ELSE Head(seq)[field] + SumOf(Tail(seq), field)

\* round(n/d): the nearest integer.  The code rounds a binary double, so at
\* an exact tie the double's last bit decides: both neighbours are outcomes
RoundDiv(n, d) ==
    LET nn == IF d < 0 THEN -n ELSE n
        dd == IF d < 0 THEN -d ELSE d
        q == nn \div dd
        r == nn - q * dd
    IN IF 2 * r < dd THEN {q}
       ELSE IF 2 * r > dd THEN {q + 1}
       ELSE {q, q + 1}

\* the quotient rounded, without the factor 100
Round2_fraction(total, max_total) == RoundDiv(total * 100, max_total)
\* round((total / max_total) * 100, 2), kept in hundredths: 8300 stands
\* for 83.0
Round2(total, max_total) == RoundDiv(total * 10000, max_total)

letter_grade_strict(percentage) ==
    IF percentage > 9000 THEN "A+"
    ELSE IF percentage > 8000 THEN "A"
    ELSE IF percentage > 7000 THEN "B+"
    ELSE IF percentage > 6000 THEN "B"
    ELSE IF percentage > 5000 THEN "C"
    ELSE IF percentage > 4000 THEN "D"
    ELSE "F"

letter_grade(percentage) ==
    IF percentage >= 9000 THEN "A+"
    ELSE IF percentage >= 8000 THEN "A"
    ELSE IF percentage >= 7000 THEN "B+"
    ELSE IF percentage >= 6000 THEN "B"
    ELSE IF percentage >= 5000 THEN "C"
    ELSE IF percentage >= 4000 THEN "D"
    ELSE "F"

total_of_max_marks(rs) == SumOf(rs, "max_marks")
total_of(rs) == SumOf(rs, "marks")
max_total_of_default(rs) == IF SumOf(rs, "max_marks") = 0 THEN 100 ELSE SumOf(rs, "max_marks")
max_total_of(rs) == IF SumOf(rs, "max_marks") = 0 THEN 1 ELSE SumOf(rs, "max_marks")

\* the tuples compute_totals(rs) can return (one, but for a rounding tie)
compute_totals(rs) ==
    LET total == total_of(rs)
        max_total == max_total_of(rs)
    IN {<<total, max_total, percentage, letter_grade(percentage)>> :
            percentage \in Round2(total, max_total)}

\* the rows of a query as a list (by id; the sums do not depend on the order)
RECURSIVE ById(_)
ById(S) ==
    IF S = {} THEN <<>>
    ELSE LET m == CHOOSE x \in S : \A y \in S : x.id <= y.id
         IN <<m>> \o ById(S \ {m})

(***************************************************************************)
(* Routes - Admin Auth (lines 618-639)                                     *)
(***************************************************************************)
admin_login(b, username_in, password, csrf) ==
    LET op == "admin_login"
        username == Strip(username_in)
        found == {u \in users : u.username = username}
    IN /\ UNCHANGED <<store, dbs, gin, gout, inflight>>
       /\ IF ~csrf THEN /\ resp' = Abort(op, b, 400) /\ UNCHANGED sessions
          ELSE IF dbs.failed THEN /\ resp' = Fault(op, b) /\ UNCHANGED sessions
          ELSE IF \E u \in found : check_password_hash(u.password_hash, password)
          THEN LET user == CHOOSE u \in found : TRUE
               IN /\ sessions' = [sessions EXCEPT ![b].admin_logged_in = TRUE,
                                                   ![b].admin_role = user.role,
                                                   ![b].admin_name = user.username]
                  /\ resp' = Redirect(op, b, "admin_dashboard", "Welcome")
          ELSE /\ resp' = Response(op, b, 200, "", "Invalid credentials")
               /\ UNCHANGED sessions

admin_logout(b) ==
    /\ sessions' = [sessions EXCEPT ![b].admin_logged_in = FALSE, ![b].admin_role = NULL,
                                     ![b].admin_name = NULL]
    /\ resp' = Redirect("admin_logout", b, "home", "Logged out")
    /\ UNCHANGED <<store, dbs, gin, gout, inflight>>

\* admin_login of app1.py (lines 439-451): the same secret key signs its
\* cookie and the same database holds its users, so its session is a
\* session of app.py too; it sets no admin_role and asks for no CSRF token
app1_admin_login(b, username_in, password) ==
    LET op == "app1_admin_login"
        username == Strip(username_in)
        found == {u \in users : u.username = username}
    IN /\ UNCHANGED <<store, dbs, gin, gout, inflight>>
       /\ IF dbs.failed THEN /\ resp' = Fault(op, b) /\ UNCHANGED sessions
          ELSE IF \E u \in found : check_password_hash(u.password_hash, password)
          THEN /\ sessions' = [sessions EXCEPT ![b].admin_logged_in = TRUE,
                                                ![b].admin_name = username]
               /\ resp' = Redirect(op, b, "admin_dashboard", "Welcome, admin!")
          ELSE /\ resp' = Response(op, b, 200, "", "Invalid credentials")
               /\ UNCHANGED sessions

(***************************************************************************)
(* Admin: Classes (lines 658-691)                                          *)
(***************************************************************************)
admin_classes_add(b, name_in, section_in, csrf) ==
    LET op == "admin_classes_add"
        name == Strip(name_in)
        section == OrNone(Strip(section_in))
        c == [name |-> name, section |-> section]
        f == Commit([NoNew EXCEPT !.classes = <<c>>], {}, NoDel)
    IN /\ UNCHANGED <<sessions, gin, gout, inflight>>
       /\ IF ~is_admin_logged_in(b) THEN Reply(require_admin(op, b, NULL))
          ELSE IF ~csrf THEN Reply(Abort(op, b, 400))
          ELSE IF name = "" THEN Reply(Redirect(op, b, "admin_classes", "Class name is required"))
          ELSE IF f.ok
          THEN /\ InBounds(f.db)
               /\ SetStore(f.db)
               /\ dbs' = Clean
               /\ resp' = Redirect(op, b, "admin_classes", "Class added")
          ELSE /\ UNCHANGED store
               /\ dbs' = Clean
               /\ resp' = Redirect(op, b, "admin_classes", "Could not add class (maybe duplicate)")

\* db.delete(obj) on a ClassRoom: the ORM cascade reaches its students
\* (ClassRoom.students, cascade "all, delete") and their results
\* (Student.results, cascade "all, delete"), loaded from the database
CascadeClass(class_id) ==
    LET ss == {x.id : x \in {y \in students : y.class_id = class_id}}
    IN [NoDel EXCEPT !.classes = {class_id},
                     !.students = ss,
                     !.results = {x.id : x \in {y \in results : y.student_id \in ss}}]

admin_classes_delete(b, class_id, csrf) ==
    LET op == "admin_classes_delete"
        f == Commit(NoNew, {}, CascadeClass(class_id))
    IN /\ UNCHANGED <<sessions, gin, gout, inflight>>
       /\ IF ~is_admin_logged_in(b) THEN Reply(require_admin(op, b, NULL))
          ELSE IF ~csrf THEN Reply(Abort(op, b, 400))
          ELSE IF dbs.failed THEN Crash(op, b)
          ELSE IF ~\E x \in classes : x.id = class_id THEN Reply(Abort(op, b, 404))
          ELSE IF f.ok
          THEN /\ InBounds(f.db)
               /\ SetStore(f.db)
               /\ dbs' = Clean
               /\ resp' = Redirect(op, b, "admin_classes", "Class deleted")
          ELSE /\ UNCHANGED store
               /\ dbs' = Failed
               /\ resp' = Fault(op, b)

(***************************************************************************)
(* Admin: Students + CSV (lines 714-796)                                   *)
(***************************************************************************)
\* the characters of the names, registration numbers and search strings
\* that occur in searches
Chars == ("ab" :> <<"a", "b">>) @@ ("a_b" :> <<"a", "_", "b">>)
         @@ ("r1" :> <<"r", "1">>) @@ ("R3" :> <<"R", "3">>)
         @@ ("a" :> <<"a">>) @@ ("B" :> <<"B">>) @@ ("_" :> <<"_">>) @@ ("%" :> <<"%">>)
         @@ ("_b" :> <<"_", "b">>) @@ ("r" :> <<"r">>) @@ ("3" :> <<"3">>) @@ ("" :> <<>>)

\* SQL lower() on one character
LowerChar(c) == CASE c = "A" -> "a" [] c = "B" -> "b" [] c = "R" -> "r" [] OTHER -> c
Lower(t) == [i \in 1..Len(t) |-> LowerChar(t[i])]

\* text LIKE pattern: % stands for any run of characters, _ for any one
RECURSIVE Like(_, _)
Like(p, t) ==
    IF p = <<>> THEN t = <<>>
    ELSE IF Head(p) = "%" THEN Like(Tail(p), t) \/ (t # <<>> /\ Like(p, Tail(t)))
    ELSE IF t = <<>> THEN FALSE
    ELSE (Head(p) = "_" \/ Head(p) = Head(t)) /\ Like(Tail(p), Tail(t))

\* column.ilike(pattern): lower(column) LIKE lower(pattern)
ilike(column, pattern) == Like(Lower(pattern), Lower(Chars[column]))

\* the rows of query.order_by(Student.id.desc()).limit(pp).offset((page-1)*pp):
\* SQLite reads a negative LIMIT as no limit and a negative OFFSET as 0
Shown(M, page, pp) ==
    LET offset == IF (page - 1) * pp < 0 THEN 0 ELSE (page - 1) * pp
        rank(s) == Cardinality({t \in M : t.id >= s.id})
    IN {s \in M : rank(s) > offset /\ (pp < 0 \/ rank(s) <= offset + pp)}

\* query.filter(name ilike %q% OR reg_no ilike %q%) when q is not empty
Matching(q) ==
    IF q = NULL THEN students
    ELSE LET like == <<"%">> \o Chars[q] \o <<"%">>
         IN {s \in students : ilike(s.name, like) \/ ilike(s.reg_no, like)}

\* request.args.get(name, type=int, default=d): an absent or non-integer
\* argument (<<>>) gives the default, an integer argument <<n>> gives n
IntArg(v, d) == IF v = <<>> THEN d ELSE v[1]

admin_students(b, q_in, page_in, pp_in) ==
    LET op == "admin_students"
        q == OrNone(Strip(q_in))
        page == IF IntArg(page_in, 1) < 1 THEN 1 ELSE IntArg(page_in, 1)
        pp == IntArg(pp_in, 10)
        total_count == Cardinality(Matching(q))
    IN /\ UNCHANGED <<store, sessions, dbs, gin, gout, inflight>>
       /\ IF ~is_admin_logged_in(b) THEN resp' = require_admin(op, b, NULL)
          ELSE IF dbs.failed THEN resp' = Fault(op, b)
          ELSE resp' = [q |-> q, page |-> page, pp |-> pp,
                        has_more |-> page * pp < total_count]
                       @@ [Response(op, b, 200, "", "")
                             EXCEPT !.rows = Shown(Matching(q), page, pp),
                                    !.count = total_count]
admin_students_add(b, reg_in, name_in, email_in, class_id, password, csrf) ==
    LET op == "admin_students_add"
        reg_no == Strip(reg_in)
        name == Strip(name_in)
        email == OrNone(Strip(email_in))
        st == [reg_no |-> reg_no, name |-> name, email |-> email,
               class_id |-> IntOf[class_id],
               password_hash |-> generate_password_hash(password)]
        f == Commit([NoNew EXCEPT !.students = <<st>>], {}, NoDel)
    IN /\ UNCHANGED <<sessions, gin, gout, inflight>>
       /\ IF ~is_admin_logged_in(b) THEN Reply(require_admin(op, b, NULL))
          ELSE IF ~csrf THEN Reply(Abort(op, b, 400))
          ELSE IF reg_no = "" \/ name = "" \/ class_id = "" \/ password = ""
          THEN Reply(Redirect(op, b, "admin_students", "All fields are required"))
          ELSE IF ~IsInt(class_id) THEN Crash(op, b)
          ELSE IF f.ok
          THEN /\ InBounds(f.db)
               /\ SetStore(f.db)
               /\ dbs' = Clean
               /\ resp' = Redirect(op, b, "admin_students", "Student added")
          ELSE /\ UNCHANGED store
               /\ dbs' = Clean
               /\ resp' = Redirect(op, b, "admin_students",
                                   "Could not add student (maybe duplicate reg no/email)")

\* db.delete(s) on a Student: Student.results, cascade "all, delete"
CascadeStudent(student_id) ==
    [NoDel EXCEPT !.students = {student_id},
                  !.results = {x.id : x \in {y \in results : y.student_id = student_id}}]

admin_students_delete(b, student_id, csrf) ==
    LET op == "admin_students_delete"
        f == Commit(NoNew, {}, CascadeStudent(student_id))
    IN /\ UNCHANGED <<sessions, gin, gout, inflight>>
       /\ IF ~is_admin_logged_in(b) THEN Reply(require_admin(op, b, NULL))
          ELSE IF ~csrf THEN Reply(Abort(op, b, 400))
          ELSE IF dbs.failed THEN Crash(op, b)
          ELSE IF ~\E x \in students : x.id = student_id THEN Reply(Abort(op, b, 404))
          ELSE IF f.ok
          THEN /\ InBounds(f.db)
               /\ SetStore(f.db)
               /\ dbs' = Clean
               /\ resp' = Redirect(op, b, "admin_students", "Student deleted")
          ELSE /\ UNCHANGED store
               /\ dbs' = Failed
               /\ resp' = Fault(op, b)

\* csv.writer: None is written as the empty cell
\* None written as a dash, as the HTML list does
OrDash(v) == IF v = NULL THEN "-" ELSE v
OrEmpty(v) == IF v = NULL THEN "" ELSE v

\* one CSV line per Student joined to its ClassRoom
StudentsCsv ==
    LET joined == {x \in students : \E c \in classes : c.id = x.class_id}
        line(x) == LET c == CHOOSE c \in classes : c.id = x.class_id
                   IN [reg_no |-> x.reg_no, name |-> x.name, email |-> OrEmpty(x.email),
                       class_name |-> c.name, section |-> OrEmpty(c.section)]
        rows == ById(joined)
    IN [i \in 1..Len(rows) |-> line(rows[i])]

admin_students_export(b) ==
    LET op == "admin_students_export"
    IN /\ UNCHANGED <<sessions, gin, gout, inflight>>
       /\ IF ~is_admin_logged_in(b) THEN Reply(require_admin(op, b, NULL))
          ELSE IF dbs.failed THEN Crash(op, b)
          ELSE Reply([Response(op, b, 200, "", "") EXCEPT !.csv = StudentsCsv])

\* the for loop of admin_students_import.  acc: ok = no flush failed so
\* far; db = the database as this transaction sees it; pend = Student
\* objects added and not flushed; lnew, ldirty = what earlier requests left
\* unflushed; created = the counter
RECURSIVE ImportStudentRows(_, _)
ImportStudentRows(rows, acc) ==
    IF rows = <<>> \/ ~acc.ok THEN acc
    ELSE
    LET row == Head(rows)
        cname == row.class_name
        csec == OrNone(row.section)
        found == {c \in acc.db.classes : c.name = cname /\ c.section = csec}
        fl == Flush(acc.db,
                    [NoNew EXCEPT !.classes = <<[name |-> cname, section |-> csec]>>,
                                  !.students = acc.pend, !.results = acc.lnew],
                    acc.ldirty, NoDel)
        acc1 == IF found # {} THEN acc
                ELSE IF fl.ok
                THEN [acc EXCEPT !.db = fl.db, !.pend = <<>>, !.lnew = <<>>, !.ldirty = {}]
                ELSE [acc EXCEPT !.ok = FALSE]
        class_id == IF found # {}
                    THEN (CHOOSE c \in found : \A d \in found : c.id <= d.id).id
                    ELSE NextId(acc.db.classes)
        st == [reg_no |-> row.reg_no, name |-> row.name, email |-> OrNone(row.email),
               class_id |-> class_id,
               password_hash |-> generate_password_hash("Pass@123")]
        acc2 == IF ~acc1.ok \/ \E x \in acc1.db.students : x.reg_no = row.reg_no
                THEN acc1
                ELSE [acc1 EXCEPT !.pend = Append(@, st), !.created = @ + 1]
    IN ImportStudentRows(Tail(rows), acc2)

\* db.commit() after the loop: the pending students and the session's
\* leftovers are written; ok = nothing raised in the loop or the commit
ImportCommit(acc) ==
    LET f == Flush(acc.db, [NoNew EXCEPT !.students = acc.pend, !.results = acc.lnew],
                   acc.ldirty, NoDel)
    IN [ok |-> acc.ok /\ f.ok, db |-> f.db, created |-> acc.created]

\* the import reporting the rows it read instead of the students it added
ImportStudentsCountingRows(db, d, rows) ==
    [ImportCommit(ImportStudentRows(rows,
                   [ok |-> TRUE, db |-> db, pend |-> <<>>, lnew |-> d.new,
                    ldirty |-> d.dirty, created |-> 0]))
       EXCEPT !.created = Len(rows)]
\* the loop and the db.commit() after it, on database db with a session
\* that holds the leftovers d: ok = nothing raised; db = the database
\* after the commit; created = the counter
ImportStudents(db, d, rows) ==
    ImportCommit(ImportStudentRows(rows,
                   [ok |-> TRUE, db |-> db, pend |-> <<>>, lnew |-> d.new,
                    ldirty |-> d.dirty, created |-> 0]))

admin_students_import(b, file, csrf) ==
    LET op == "admin_students_import"
        f == ImportStudents(DB, dbs, file.rows)
    IN /\ UNCHANGED <<sessions, gin, gout, inflight>>
       /\ IF ~is_admin_logged_in(b) THEN Reply(require_admin(op, b, NULL))
          ELSE IF ~csrf THEN Reply(Abort(op, b, 400))
          ELSE IF ~file.present
          THEN Reply(Redirect(op, b, "admin_students", "No file uploaded"))
          ELSE IF dbs.failed THEN Crash(op, b)
          ELSE IF f.ok
          THEN /\ InBounds(f.db)
               /\ SetStore(f.db)
               /\ dbs' = Clean
               /\ resp' = [Redirect(op, b, "admin_students", "Imported students")
                             EXCEPT !.count = f.created]
          ELSE /\ UNCHANGED store
               /\ dbs' = Failed
               /\ resp' = Fault(op, b)

(***************************************************************************)
(* Admin: Subjects (lines 810-843)                                         *)
(***************************************************************************)
admin_subjects_add(b, name_in, class_id, csrf) ==
    LET op == "admin_subjects_add"
        name == Strip(name_in)
        subj == [name |-> name, class_id |-> IntOf[class_id]]
        f == Commit([NoNew EXCEPT !.subjects = <<subj>>], {}, NoDel)
    IN /\ UNCHANGED <<sessions, gin, gout, inflight>>
       /\ IF ~is_admin_logged_in(b) THEN Reply(require_admin(op, b, NULL))
          ELSE IF ~csrf THEN Reply(Abort(op, b, 400))
          ELSE IF name = "" \/ class_id = ""
          THEN Reply(Redirect(op, b, "admin_subjects", "All fields are required"))
          ELSE IF ~IsInt(class_id) THEN Crash(op, b)
          ELSE IF f.ok
          THEN /\ InBounds(f.db)
               /\ SetStore(f.db)
               /\ dbs' = Clean
               /\ resp' = Redirect(op, b, "admin_subjects", "Subject added")
          ELSE /\ UNCHANGED store
               /\ dbs' = Clean
               /\ resp' = Redirect(op, b, "admin_subjects",
                                   "Could not add subject (maybe duplicate per class)")

\* db.delete(subj) on a Subject: Subject.results, cascade "all, delete"
CascadeSubject(subject_id) ==
    [NoDel EXCEPT !.subjects = {subject_id},
                  !.results = {x.id : x \in {y \in results : y.subject_id = subject_id}}]

admin_subjects_delete(b, subject_id, csrf) ==
    LET op == "admin_subjects_delete"
        f == Commit(NoNew, {}, CascadeSubject(subject_id))
    IN /\ UNCHANGED <<sessions, gin, gout, inflight>>
       /\ IF ~is_admin_logged_in(b) THEN Reply(require_admin(op, b, NULL))
          ELSE IF ~csrf THEN Reply(Abort(op, b, 400))
          ELSE IF dbs.failed THEN Crash(op, b)
          ELSE IF ~\E x \in subjects : x.id = subject_id THEN Reply(Abort(op, b, 404))
          ELSE IF f.ok
          THEN /\ InBounds(f.db)
               /\ SetStore(f.db)
               /\ dbs' = Clean
               /\ resp' = Redirect(op, b, "admin_subjects", "Subject deleted")
          ELSE /\ UNCHANGED store
               /\ dbs' = Failed
               /\ resp' = Fault(op, b)

(***************************************************************************)
(* app1.py: Subjects (app1.py lines 86-97, 567-598).  Its models spell the  *)
(* table arguments _table_args_, a name SQLAlchemy does not read: a        *)
(* database that app1.py created has no UNIQUE constraint on classes,      *)
(* subjects or results                                                     *)
(***************************************************************************)
\* the INSERT of row r into table T of kind k raises IntegrityError in a
\* database created by app1.py (NOT NULL and the column-level unique=True)
App1Violates(k, T, r) ==
    CASE k = "class" -> r.name = NULL
      [] k = "student" -> \/ r.reg_no = NULL \/ r.name = NULL
                          \/ \E x \in T : x.reg_no = r.reg_no
      [] k = "user" -> \E x \in T : x.username = r.username
      [] OTHER -> FALSE

RECURSIVE App1InsertSeq(_, _, _)
App1InsertSeq(k, T, seq) ==
    IF seq = <<>> THEN [ok |-> TRUE, rows |-> T]
    ELSE IF App1Violates(k, T, Head(seq)) THEN [ok |-> FALSE, rows |-> T]
    ELSE App1InsertSeq(k, T \cup {WithId(k, T, Head(seq))}, Tail(seq))

\* db.commit() of app1.py adding the Subject subj (the session's leftovers
\* are flushed with it)
App1CommitSubject(subj) ==
    LET j == App1InsertSeq("subject", subjects, <<subj>>)
        r == App1InsertSeq("result", results, dbs.new)
    IN IF dbs.failed \/ ~j.ok \/ ~r.ok THEN [ok |-> FALSE, db |-> DB]
       ELSE [ok |-> TRUE,
             db |-> [DB EXCEPT !.subjects = j.rows,
                               !.results = ApplyDirty(r.rows, dbs.dirty)]]

app1_admin_subjects_add(b, name_in, class_id) ==
    LET op == "app1_admin_subjects_add"
        name == Strip(name_in)
        f == App1CommitSubject([name |-> name, class_id |-> IntOf[class_id]])
    IN /\ UNCHANGED <<sessions, gin, gout, inflight>>
       /\ IF ~is_admin_logged_in(b)
          THEN Reply(Redirect(op, b, "admin_login", "Please login as admin."))
          ELSE IF name = "" \/ class_id = ""
          THEN Reply(Redirect(op, b, "admin_subjects", "All fields are required"))
          ELSE IF ~IsInt(class_id) THEN Crash(op, b)
          ELSE IF f.ok
          THEN /\ InBounds(f.db)
               /\ SetStore(f.db)
               /\ dbs' = Clean
               /\ resp' = Redirect(op, b, "admin_subjects", "Subject added")
          ELSE /\ UNCHANGED store
               /\ dbs' = Clean
               /\ resp' = Redirect(op, b, "admin_subjects",
                                   "Could not add subject (maybe duplicate per class)")

app1_admin_subjects_delete(b, subject_id) ==
    LET op == "app1_admin_subjects_delete"
        del == CascadeSubject(subject_id)
        r == App1InsertSeq("result", results, dbs.new)
    IN /\ UNCHANGED <<sessions, gin, gout, inflight>>
       /\ IF ~is_admin_logged_in(b)
          THEN Reply(Redirect(op, b, "admin_login", "Please login as admin."))
          ELSE IF dbs.failed THEN Crash(op, b)
          ELSE IF ~\E x \in subjects : x.id = subject_id THEN Reply(Abort(op, b, 404))
          ELSE IF r.ok
          THEN /\ classes' = classes /\ students' = students /\ users' = users
               /\ subjects' = {x \in subjects : x.id \notin del.subjects}
               /\ results' = {x \in ApplyDirty(r.rows, dbs.dirty) : x.id \notin del.results}
               /\ dbs' = Clean
               /\ resp' = Redirect(op, b, "admin_subjects", "Subject deleted")
          ELSE /\ UNCHANGED store
               /\ dbs' = Failed
               /\ resp' = Fault(op, b)
(***************************************************************************)
(* Admin: Results + CSV (lines 848-937)                                    *)
(***************************************************************************)
\* db.query(Result).filter_by(student_id=..., subject_id=...).first()
ExistingResult(R, student_id, subject_id) ==
    {x \in R : /\ x.student_id = student_id /\ x.subject_id = subject_id
                /\ \A y \in R : (y.student_id = student_id /\ y.subject_id = subject_id)
                                  => x.id <= y.id}

\* the POST branch
admin_results_add(b, student_in, subject_in, marks_in, max_in, csrf) ==
    LET op == "admin_results_add"
        student_id == FormInt(student_in)
        subject_id == FormInt(subject_in)
        marks == FormInt(marks_in)
        max_marks == FormInt(max_in)
        sid == CHOOSE x \in student_id : TRUE
        subid == CHOOSE x \in subject_id : TRUE
        m == CHOOSE x \in marks : TRUE
        mm == CHOOSE x \in max_marks : TRUE
        existing == ExistingResult(ViewResults, sid, subid)
        upd == {[id |-> x.id, marks |-> m, max_marks |-> mm] : x \in existing}
        add == IF existing = {}
               THEN <<[student_id |-> sid, subject_id |-> subid, marks |-> m, max_marks |-> mm]>>
               ELSE <<>>
        f == Commit([NoNew EXCEPT !.results = add], upd, NoDel)
    IN /\ UNCHANGED <<sessions, gin, gout, inflight>>
       /\ IF ~is_admin_logged_in(b) THEN Reply(require_admin(op, b, NULL))
          ELSE IF dbs.failed THEN Crash(op, b)
          ELSE IF ~csrf THEN Reply(Abort(op, b, 400))
          ELSE IF \/ student_id \in {{}, {0}} \/ subject_id \in {{}, {0}}
                  \/ marks = {} \/ max_marks \in {{}, {0}}
          THEN Reply(Redirect(op, b, "admin_results_add", "All fields are required"))
          ELSE IF f.ok
          THEN /\ InBounds(f.db)
               /\ SetStore(f.db)
               /\ dbs' = Clean
               /\ resp' = Redirect(op, b, "admin_results_add",
                                   IF existing # {} THEN "Result updated" ELSE "Result added")
          ELSE /\ UNCHANGED store
               /\ dbs' = Failed
               /\ resp' = Fault(op, b)

\* admin_results_add served by a worker thread of its own (a clean session)
\* while other requests run: first the part up to the lookup of the
\* existing row; inflight[b] keeps what the request holds
admin_results_add_lookup(b, student_in, subject_in, marks_in, max_in) ==
    LET student_id == FormInt(student_in)
        subject_id == FormInt(subject_in)
        marks == FormInt(marks_in)
        max_marks == FormInt(max_in)
        sid == CHOOSE x \in student_id : TRUE
        subid == CHOOSE x \in subject_id : TRUE
    IN /\ is_admin_logged_in(b)
       /\ inflight[b] = {}
       /\ student_id \notin {{}, {0}} /\ subject_id \notin {{}, {0}}
       /\ marks # {} /\ max_marks \notin {{}, {0}}
       /\ inflight' = [inflight EXCEPT ![b] =
              {[student_id |-> sid, subject_id |-> subid,
                marks |-> CHOOSE x \in marks : TRUE,
                max_marks |-> CHOOSE x \in max_marks : TRUE,
                existing |-> {x.id : x \in ExistingResult(results, sid, subid)}]}]
       /\ UNCHANGED <<store, sessions, dbs, resp, gin, gout>>

\* then db.commit(): the UPDATE of the row found (StaleDataError when it is
\* gone), or the INSERT of the new Result (IntegrityError when the pair has
\* a row by now); nothing catches either
admin_results_add_commit(b) ==
    LET op == "admin_results_add"
        q == CHOOSE x \in inflight[b] : TRUE
        upd == {[id |-> i, marks |-> q.marks, max_marks |-> q.max_marks] : i \in q.existing}
        add == IF q.existing = {}
               THEN <<[student_id |-> q.student_id, subject_id |-> q.subject_id,
                       marks |-> q.marks, max_marks |-> q.max_marks]>>
               ELSE <<>>
        f == Flush(DB, [NoNew EXCEPT !.results = add], upd, NoDel)
        stale == \E i \in q.existing : \A x \in results : x.id # i
    IN /\ inflight[b] # {}
       /\ inflight' = [inflight EXCEPT ![b] = {}]
       /\ UNCHANGED <<sessions, dbs, gin, gout>>
       /\ IF f.ok /\ ~stale
          THEN /\ InBounds(f.db)
               /\ SetStore(f.db)
               /\ resp' = Redirect(op, b, "admin_results_add",
                                   IF q.existing # {} THEN "Result updated" ELSE "Result added")
          ELSE /\ UNCHANGED store
               /\ resp' = Fault(op, b)
\* one CSV line per Result joined to its Subject and Student, for the
\* subjects of the class
ResultsCsv(class_id) ==
    LET joined == {x \in ViewResults :
                     /\ \E j \in subjects : j.id = x.subject_id /\ j.class_id = class_id
                     /\ \E t \in students : t.id = x.student_id}
        line(x) == [reg_no |-> (CHOOSE t \in students : t.id = x.student_id).reg_no,
                    subject |-> (CHOOSE j \in subjects : j.id = x.subject_id).name,
                    marks |-> StrOf(x.marks), max_marks |-> StrOf(x.max_marks)]
        rows == ById(joined)
    IN [i \in 1..Len(rows) |-> line(rows[i])]

admin_results_export(b, class_in) ==
    LET op == "admin_results_export"
        class_id == FormInt(class_in)
    IN /\ UNCHANGED <<sessions, gin, gout, inflight>>
       /\ IF ~is_admin_logged_in(b) THEN Reply(require_admin(op, b, NULL))
          ELSE IF class_id \in {{}, {0}} THEN Reply(Abort(op, b, 400))
          ELSE IF dbs.failed THEN Crash(op, b)
          ELSE Reply([Response(op, b, 200, "", "")
                        EXCEPT !.csv = ResultsCsv(CHOOSE x \in class_id : TRUE)])

\* the for loop of admin_results_import.  acc: ok = no int() raised so far;
\* new = Result objects added; dirty = Result objects modified; up = the
\* counter.  A cell is a string, or NULL when the file has no such column.
RECURSIVE ImportResultRows(_, _, _)
ImportResultRows(rows, class_id, acc) ==
    IF rows = <<>> \/ ~acc.ok THEN acc
    ELSE
    LET row == Head(rows)
        sids == {x.id : x \in {y \in students : y.class_id = class_id /\ y.reg_no = row.reg_no}}
        subids == {x.id : x \in {y \in subjects : y.class_id = class_id /\ y.name = row.subject}}
        sid == CHOOSE x \in sids : TRUE
        subid == CHOOSE x \in subids : TRUE
        marks_s == IF row.marks = NULL THEN "0" ELSE row.marks
        max_s == IF row.max_marks = NULL THEN "100" ELSE row.max_marks
        marks == IntOf[marks_s]
        max_marks == IntOf[max_s]
        existing == ExistingResult(ApplyDirty(results, acc.dirty), sid, subid)
        acc1 == IF sids = {} \/ subids = {} THEN acc
                ELSE IF ~IsInt(marks_s) \/ ~IsInt(max_s) THEN [acc EXCEPT !.ok = FALSE]
                ELSE IF existing # {}
                THEN [acc EXCEPT
                        !.dirty = MergeDirty(@, {[id |-> x.id, marks |-> marks,
                                                  max_marks |-> max_marks] : x \in existing}),
                        !.up = @ + 1]
                ELSE [acc EXCEPT
                        !.new = Append(@, [student_id |-> sid, subject_id |-> subid,
                                           marks |-> marks, max_marks |-> max_marks]),
                        !.up = @ + 1]
    IN ImportResultRows(Tail(rows), class_id, acc1)

admin_results_import(b, class_id, file, csrf) ==
    LET op == "admin_results_import"
        acc == ImportResultRows(file.rows, class_id,
                   [ok |-> TRUE, new |-> <<>>, dirty |-> dbs.dirty, up |-> 0])
        f == Flush(DB, [NoNew EXCEPT !.results = dbs.new \o acc.new], acc.dirty, NoDel)
    IN /\ UNCHANGED <<sessions, gin, gout, inflight>>
       /\ IF ~is_admin_logged_in(b) THEN Reply(require_admin(op, b, NULL))
          ELSE IF ~csrf THEN Reply(Abort(op, b, 400))
          ELSE IF ~file.present
          THEN Reply(Redirect(op, b, "admin_results_add", "No file uploaded"))
          ELSE IF dbs.failed THEN Crash(op, b)
          ELSE IF ~acc.ok
          THEN \* int() raised: the view is left with the objects still pending
               /\ Len(dbs.new \o acc.new) <= MaxPending
               /\ UNCHANGED store
               /\ dbs' = [failed |-> FALSE, new |-> dbs.new \o acc.new, dirty |-> acc.dirty]
               /\ resp' = Fault(op, b)
          ELSE IF f.ok
          THEN /\ InBounds(f.db)
               /\ SetStore(f.db)
               /\ dbs' = Clean
               /\ resp' = [Redirect(op, b, "admin_results_add", "Imported/updated results")
                             EXCEPT !.count = acc.up]
          ELSE /\ UNCHANGED store
               /\ dbs' = Failed
               /\ resp' = Fault(op, b)

(***************************************************************************)
(* Admin: Staff users (lines 942-990)                                      *)
(***************************************************************************)
admin_users(b) ==
    LET op == "admin_users"
    IN /\ UNCHANGED <<sessions, gin, gout, inflight>>
       /\ IF ~is_admin_logged_in(b) THEN Reply(require_admin(op, b, NULL))
          ELSE IF current_admin_role(b) # "admin" THEN Reply(require_admin(op, b, "admin"))
          ELSE IF dbs.failed THEN Crash(op, b)
          ELSE Reply([Response(op, b, 200, "", "") EXCEPT !.rows = users])

admin_users_add(b, username_in, password, role, csrf) ==
    LET op == "admin_users_add"
        username == Strip(username_in)
        u == [username |-> username, password_hash |-> generate_password_hash(password),
              role |-> role]
        f == Commit([NoNew EXCEPT !.users = <<u>>], {}, NoDel)
    IN /\ UNCHANGED <<sessions, gin, gout, inflight>>
       /\ IF ~is_admin_logged_in(b) THEN Reply(require_admin(op, b, NULL))
          ELSE IF current_admin_role(b) # "admin" THEN Reply(require_admin(op, b, "admin"))
          ELSE IF ~csrf THEN Reply(Abort(op, b, 400))
          ELSE IF username = "" \/ password = ""
          THEN Reply(Redirect(op, b, "admin_users", "All fields are required"))
          ELSE IF f.ok
          THEN /\ InBounds(f.db)
               /\ SetStore(f.db)
               /\ dbs' = Clean
               /\ resp' = Redirect(op, b, "admin_users", "User added")
          ELSE /\ UNCHANGED store
               /\ dbs' = Clean
               /\ resp' = Redirect(op, b, "admin_users", "Could not add user (maybe duplicate)")

admin_users_delete_any_role(b, user_id, csrf) ==
    LET op == "admin_users_delete"
        f == Commit(NoNew, {}, [NoDel EXCEPT !.users = {user_id}])
    IN /\ UNCHANGED <<sessions, gin, gout, inflight>>
       /\ IF ~is_admin_logged_in(b) THEN Reply(require_admin(op, b, NULL))
          ELSE IF ~csrf THEN Reply(Abort(op, b, 400))
          ELSE IF dbs.failed THEN Crash(op, b)
          ELSE IF ~\E x \in users : x.id = user_id /\ x.username # "admin"
          THEN Reply(Abort(op, b, 400))
          ELSE IF f.ok
          THEN /\ InBounds(f.db)
               /\ SetStore(f.db)
               /\ dbs' = Clean
               /\ resp' = Redirect(op, b, "admin_users", "User deleted")
          ELSE /\ UNCHANGED store
               /\ dbs' = Failed
               /\ resp' = Fault(op, b)

\* the delete without the test for the username 'admin'
admin_users_delete_unguarded(b, user_id, csrf) ==
    LET op == "admin_users_delete"
        f == Commit(NoNew, {}, [NoDel EXCEPT !.users = {user_id}])
    IN /\ UNCHANGED <<sessions, gin, gout, inflight>>
       /\ IF ~is_admin_logged_in(b) THEN Reply(require_admin(op, b, NULL))
          ELSE IF current_admin_role(b) # "admin" THEN Reply(require_admin(op, b, "admin"))
          ELSE IF ~csrf THEN Reply(Abort(op, b, 400))
          ELSE IF dbs.failed THEN Crash(op, b)
          ELSE IF ~\E x \in users : x.id = user_id
          THEN Reply(Abort(op, b, 400))
          ELSE IF f.ok
          THEN /\ InBounds(f.db)
               /\ SetStore(f.db)
               /\ dbs' = Clean
               /\ resp' = Redirect(op, b, "admin_users", "User deleted")
          ELSE /\ UNCHANGED store
               /\ dbs' = Failed
               /\ resp' = Fault(op, b)
admin_users_delete(b, user_id, csrf) ==
    LET op == "admin_users_delete"
        f == Commit(NoNew, {}, [NoDel EXCEPT !.users = {user_id}])
    IN /\ UNCHANGED <<sessions, gin, gout, inflight>>
       /\ IF ~is_admin_logged_in(b) THEN Reply(require_admin(op, b, NULL))
          ELSE IF current_admin_role(b) # "admin" THEN Reply(require_admin(op, b, "admin"))
          ELSE IF ~csrf THEN Reply(Abort(op, b, 400))
          ELSE IF dbs.failed THEN Crash(op, b)
          ELSE IF ~\E x \in users : x.id = user_id /\ x.username # "admin"
          THEN Reply(Abort(op, b, 400))
          ELSE IF f.ok
          THEN /\ InBounds(f.db)
               /\ SetStore(f.db)
               /\ dbs' = Clean
               /\ resp' = Redirect(op, b, "admin_users", "User deleted")
          ELSE /\ UNCHANGED store
               /\ dbs' = Failed
               /\ resp' = Fault(op, b)

(***************************************************************************)
(* Student auth & portal + printable (lines 995-1048)                      *)
(***************************************************************************)
student_login(b, reg_in, password, csrf) ==
    LET op == "student_login"
        reg_no == Strip(reg_in)
        found == {x \in students : x.reg_no = reg_no}
    IN /\ UNCHANGED <<store, dbs, gin, gout, inflight>>
       /\ IF ~csrf THEN /\ resp' = Abort(op, b, 400) /\ UNCHANGED sessions
          ELSE IF dbs.failed THEN /\ resp' = Fault(op, b) /\ UNCHANGED sessions
          ELSE IF \E x \in found : check_password_hash(x.password_hash, password)
          THEN LET student == CHOOSE x \in found : TRUE
               IN /\ sessions' = [sessions EXCEPT ![b].student_id = student.id,
                                                   ![b].auth_uid = student.uid]
                  /\ resp' = Redirect(op, b, "student_portal", "Logged in successfully")
          ELSE /\ resp' = Response(op, b, 200, "", "Invalid credentials")
               /\ UNCHANGED sessions

\* the body shared by student_portal and student_marksheet
StudentPage(op, b) ==
    LET found == {x \in students : x.id = current_student_id(b)}
        s == CHOOSE x \in found : TRUE
        rows == {r \in ViewResults : /\ r.student_id = s.id
                                      /\ \E j \in subjects : j.id = r.subject_id}
    IN /\ UNCHANGED <<sessions, gin, gout, inflight>>
       /\ IF ~is_student_logged_in(b)
          THEN Reply(Redirect(op, b, "student_login", "Please login first"))
          ELSE IF dbs.failed THEN Crash(op, b)
          ELSE IF found = {} THEN Crash(op, b)
          ELSE \E totals \in compute_totals(ById(rows)) :
                  Reply([Response(op, b, 200, "", "")
                           EXCEPT !.student = {s}, !.rows = rows, !.totals = totals])

student_portal(b) == StudentPage("student_portal", b)

student_marksheet(b) == StudentPage("student_marksheet", b)

student_logout(b) ==
    /\ sessions' = [sessions EXCEPT ![b].student_id = 0, ![b].auth_uid = 0]
    /\ resp' = Redirect("student_logout", b, "home", "Logged out")
    /\ UNCHANGED <<store, dbs, gin, gout, inflight>>

\* the worker thread ends (the connection closes): its session is dropped,
\* which rolls back whatever it held
WorkerExit ==
    /\ dbs # Clean
    /\ dbs' = Clean
    /\ UNCHANGED <<store, sessions, resp, gin, gout, inflight>>

(***************************************************************************)
(* init_db (lines 1106-1113) and the requests the model sends              *)
(***************************************************************************)
Init ==
    /\ classes = {}
    /\ students = {}
    /\ subjects = {}
    /\ results = {}
    /\ users = {[id |-> 1, username |-> "admin",
                  password_hash |-> generate_password_hash("admin123"), role |-> "admin"]}
    /\ sessions = [b \in Browsers |-> NoSession]
    /\ dbs = Clean
    /\ resp = Response("init_db", "b1", 200, "", "")
    /\ gin = <<>>
    /\ gout = <<>>
    /\ inflight = [b \in Browsers |-> {}]

ClassNames == {"", "X"}
SectionNames == {"", "A"}
RegNos == {"", "r1", " r1 ", "r2"}
StudentNames == {"n1", "n2"}
Emails == {"", "e1"}
IdFields == {"", "1", "2", "x"}
StudentPasswords == {"", "p1"}
SubjectNames == {"", "m1"}
MarksFields == {"", "0", "1"}
MaxFields == {"", "0", "2"}
Usernames == {"admin", "bob"}
AdminPasswords == {"admin123", "pw"}
Roles == {"admin", "staff"}

StudentRows == [reg_no : {"r1", "r2"}, name : {"n1"}, email : {"", "e1"},
                class_name : {"X", NULL}, section : {"", "A"}]
ResultRows == [reg_no : {"r1", "r2"}, subject : {"m1"}, marks : {"1", "x"},
               max_marks : {"2", NULL}]

RECURSIVE SeqsUpTo(_, _)
SeqsUpTo(S, n) ==
    IF n = 0 THEN {<<>>}
    ELSE LET shorter == SeqsUpTo(S, n - 1)
         IN shorter \cup {Append(q, x) : q \in shorter, x \in S}

Files(Rows) == {[present |-> FALSE, rows |-> <<>>]}
               \cup {[present |-> TRUE, rows |-> q] : q \in SeqsUpTo(Rows, MaxFileRows)}

Next ==
    \/ \E b \in Browsers, u \in Usernames, p \in AdminPasswords, t \in BOOLEAN :
          admin_login(b, u, p, t)
    \/ \E b \in Browsers : admin_logout(b)
    \/ \E b \in Browsers, n \in ClassNames, s \in SectionNames, t \in BOOLEAN :
          admin_classes_add(b, n, s, t)
    \/ \E b \in Browsers, c \in 1..MaxClassId, t \in BOOLEAN :
          admin_classes_delete(b, c, t)
    \/ \E b \in Browsers, r \in RegNos, n \in StudentNames, e \in Emails,
           c \in IdFields, p \in StudentPasswords, t \in BOOLEAN :
          admin_students_add(b, r, n, e, c, p, t)
    \/ \E b \in Browsers, i \in 1..MaxStudentId, t \in BOOLEAN :
          admin_students_delete(b, i, t)
    \/ \E b \in Browsers : admin_students_export(b)
    \/ \E b \in Browsers, f \in Files(StudentRows), t \in BOOLEAN :
          admin_students_import(b, f, t)
    \/ \E b \in Browsers, n \in SubjectNames, c \in IdFields, t \in BOOLEAN :
          admin_subjects_add(b, n, c, t)
    \/ \E b \in Browsers, j \in 1..MaxSubjectId, t \in BOOLEAN :
          admin_subjects_delete(b, j, t)
    \/ \E b \in Browsers, i \in IdFields, j \in IdFields, m \in MarksFields,
           x \in MaxFields, t \in BOOLEAN :
          admin_results_add(b, i, j, m, x, t)
    \/ \E b \in Browsers, c \in IdFields : admin_results_export(b, c)
    \/ \E b \in Browsers, c \in 1..MaxClassId, f \in Files(ResultRows), t \in BOOLEAN :
          admin_results_import(b, c, f, t)
    \/ \E b \in Browsers : admin_users(b)
    \/ \E b \in Browsers, u \in Usernames, p \in AdminPasswords, r \in Roles, t \in BOOLEAN :
          admin_users_add(b, u, p, r, t)
    \/ \E b \in Browsers, i \in 1..MaxUserId, t \in BOOLEAN :
          admin_users_delete(b, i, t)
    \/ \E b \in Browsers, r \in RegNos, p \in StudentPasswords \cup {"Pass@123"}, t \in BOOLEAN :
          student_login(b, r, p, t)
    \/ \E b \in Browsers : student_portal(b)
    \/ \E b \in Browsers : student_marksheet(b)
    \/ \E b \in Browsers : student_logout(b)
    \/ WorkerExit

Spec == Init /\ [][Next]_vars

(***************************************************************************)
(* Grading on its own: compute_totals applied to a given list of results   *)
(***************************************************************************)
\* marks/max_marks pairs that meet every threshold of the ladder from both
\* sides, the zero divisor, and the documented example (45/50, 38/50)
GradeResults ==
    {[marks |-> m, max_marks |-> 100] : m \in {0, 39, 40, 49, 50, 59, 60, 69, 70, 79, 80, 89, 90, 100}}
    \cup {[marks |-> 8999, max_marks |-> 10000], [marks |-> 9000, max_marks |-> 10000],
          [marks |-> 0, max_marks |-> 0], [marks |-> 5, max_marks |-> 0],
          [marks |-> 45, max_marks |-> 50], [marks |-> 38, max_marks |-> 50],
          [marks |-> 7, max_marks |-> -100]}

InitGrade ==
    /\ classes = {} /\ students = {} /\ subjects = {} /\ results = {}
    /\ users = {[id |-> 1, username |-> "admin",
                  password_hash |-> generate_password_hash("admin123"), role |-> "admin"]}
    /\ sessions = [b \in Browsers |-> NoSession]
    /\ dbs = Clean
    /\ resp = Response("init_db", "b1", 200, "", "")
    /\ gin \in SeqsUpTo(GradeResults, MaxGradeLen)
    /\ gout = <<>>
    /\ inflight = [b \in Browsers |-> {}]

Grade ==
    /\ gout = <<>>
    /\ gout' \in compute_totals(gin)
    /\ UNCHANGED <<store, sessions, dbs, resp, gin, inflight>>

NextGrade == Grade

SpecGrade == InitGrade /\ [][NextGrade]_vars

\* the sum of a field over gin, counted from the left by index
SumLeft(field) ==
    LET S[i \in 0..Len(gin)] == IF i = 0 THEN 0 ELSE S[i - 1] + gin[i][field]
    IN S[Len(gin)]

\* C8: the first component of compute_totals(R) is the sum of r.marks over
\* R, and 0 when R is empty
C8_TotalIsSum ==
    gout # <<>> => /\ gout[1] = SumLeft("marks")
                   /\ (gin = <<>> => gout[1] = 0)

C8_Witness == gout # <<>> /\ Len(gin) = 2 /\ gout[1] = 83

\* C9: the second component is the sum of max_marks, except that it is 1
\* when that sum is 0; it is never 0, and the percentage is the quotient by
\* that divisor rounded to two decimals
C9_NoZeroDivisor ==
    gout # <<>> =>
        LET sum == SumLeft("max_marks")
            d == gout[2]
            err == gout[3] * d - 10000 * gout[1]
            abs(x) == IF x < 0 THEN -x ELSE x
        IN /\ d = (IF sum = 0 THEN 1 ELSE sum)
           /\ d # 0
           /\ 2 * abs(err) <= abs(d)

C9_Witness == gout # <<>> /\ gin # <<>> /\ SumLeft("max_marks") = 0 /\ gout[2] = 1
              /\ gout[1] = 5 /\ gout[3] = 50000

\* C10: the grade follows from the rounded percentage p by inclusive lower
\* bounds: A+ iff p >= 90, A iff 80 <= p < 90, B+ iff 70 <= p < 80, B iff
\* 60 <= p < 70, C iff 50 <= p < 60, D iff 40 <= p < 50, F iff p < 40
C10_GradeBands ==
    gout # <<>> =>
        LET p == gout[3]
            g == gout[4]
        IN /\ (g = "A+") <=> (p >= 9000)
           /\ (g = "A") <=> (8000 <= p /\ p < 9000)
           /\ (g = "B+") <=> (7000 <= p /\ p < 8000)
           /\ (g = "B") <=> (6000 <= p /\ p < 7000)
           /\ (g = "C") <=> (5000 <= p /\ p < 6000)
           /\ (g = "D") <=> (4000 <= p /\ p < 5000)
           /\ (g = "F") <=> (p < 4000)

C10_Witness == gout # <<>> /\ gout[3] = 8999 /\ gout[4] = "A"

\* C11: compute_totals on (marks 45, max 50) and (marks 38, max 50) returns
\* total 83, max_total 100, percentage 83.0 and grade "B+"
C11_Example ==
    (gout # <<>> /\ gin = <<[marks |-> 45, max_marks |-> 50], [marks |-> 38, max_marks |-> 50]>>)
    => gout = <<83, 100, 8300, "B+">>

\* C11 as the code has it: the same call returns total 83, max_total 100,
\* percentage 83.0 and grade "A" (83.0 >= 80)
C11_ExampleGradeA ==
    (gout # <<>> /\ gin = <<[marks |-> 45, max_marks |-> 50], [marks |-> 38, max_marks |-> 50]>>)
    => gout = <<83, 100, 8300, "A">>

C11_Witness ==
    /\ gin = <<[marks |-> 45, max_marks |-> 50], [marks |-> 38, max_marks |-> 50]>>
    /\ gout # <<>>
    /\ gout[1] = 83 /\ gout[2] = 100 /\ gout[3] = 8300
(***************************************************************************)
(* User management: logins of both roles and the three user operations     *)
(***************************************************************************)
NextUsers ==
    \/ \E b \in Browsers, u \in Usernames, p \in AdminPasswords, t \in BOOLEAN :
          admin_login(b, u, p, t)
    \/ \E b \in Browsers, u \in Usernames, p \in AdminPasswords :
          app1_admin_login(b, u, p)
    \/ \E b \in Browsers : admin_logout(b)
    \/ \E b \in Browsers : admin_users(b)
    \/ \E b \in Browsers, u \in Usernames \cup {""}, p \in {"pw"},
           r \in Roles \cup {"guest"}, t \in BOOLEAN :
          admin_users_add(b, u, p, r, t)
    \/ \E b \in Browsers, i \in 1..MaxUserId, t \in BOOLEAN :
          admin_users_delete(b, i, t)

SpecUsers == Init /\ [][NextUsers]_vars

UserOps == {"admin_users", "admin_users_add", "admin_users_delete"}

\* C3: a user-management request of a logged-in session whose role is not
\* exactly 'admin' (staff, another role, no role) lists, creates and deletes
\* no AdminUser; it is answered with the warning and a redirect to the
\* dashboard
C3_UserOpsNeedAdminRole ==
    [][(/\ resp'.op \in UserOps
        /\ sessions[resp'.b].admin_logged_in
        /\ sessions[resp'.b].admin_role # "admin")
       => /\ UNCHANGED store
          /\ resp' = Redirect(resp'.op, resp'.b, "admin_dashboard", "Insufficient privileges.")]_vars

C3_Witness ==
    /\ resp.op = "admin_users_delete"
    /\ resp.to = "admin_dashboard"
    /\ sessions[resp.b].admin_role = "staff"
    /\ \E u \in users : u.username # "admin"

(***************************************************************************)
(* Stores and sessions a run of the program reaches, used as starting      *)
(* points of the restricted specifications                                 *)
(***************************************************************************)
\* after init_db
FreshStore ==
    [classes |-> {}, students |-> {}, subjects |-> {}, results |-> {},
     users |-> {[id |-> 1, username |-> "admin",
                 password_hash |-> generate_password_hash("admin123"), role |-> "admin"]}]

\* after the admin added class X, student r1, subject m1 and r1's marks
OneOfEach ==
    [FreshStore EXCEPT
        !.classes = {[id |-> 1, name |-> "X", section |-> NULL]},
        !.students = {[id |-> 1, reg_no |-> "r1", name |-> "n1", email |-> NULL,
                       password_hash |-> generate_password_hash("p1"), class_id |-> 1,
                       uid |-> 1]},
        !.subjects = {[id |-> 1, name |-> "m1", class_id |-> 1]},
        !.results = {[id |-> 1, student_id |-> 1, subject_id |-> 1, marks |-> 1,
                      max_marks |-> 2]}]

\* after admin_login of the bootstrap administrator
AdminSession == [NoSession EXCEPT !.admin_logged_in = TRUE, !.admin_role = "admin",
                                  !.admin_name = "admin"]

InitFrom(db, sess, d) ==
    /\ classes = db.classes
    /\ students = db.students
    /\ subjects = db.subjects
    /\ results = db.results
    /\ users = db.users
    /\ sessions = sess
    /\ dbs = d
    /\ resp = Response("init_db", "b1", 200, "", "")
    /\ gin = <<>>
    /\ gout = <<>>
    /\ inflight = [b \in Browsers |-> {}]

(***************************************************************************)
(* The admin gate: every admin operation, asked for by browsers that hold  *)
(* no administrator identity (anonymous, or logged in as a student)        *)
(***************************************************************************)
InitAnon ==
    \E db \in {FreshStore, OneOfEach}, d \in {Clean, Failed} :
        InitFrom(db, [b \in Browsers |-> NoSession], d)

NextAnon ==
    \/ \E b \in Browsers, u \in Usernames, t \in BOOLEAN : admin_login(b, u, "pw", t)
    \/ \E b \in Browsers, r \in RegNos, p \in StudentPasswords, t \in BOOLEAN :
          student_login(b, r, p, t)
    \/ \E b \in Browsers : student_logout(b)
    \/ \E b \in Browsers, n \in ClassNames, s \in SectionNames, t \in BOOLEAN :
          admin_classes_add(b, n, s, t)
    \/ \E b \in Browsers, c \in 1..MaxClassId, t \in BOOLEAN :
          admin_classes_delete(b, c, t)
    \/ \E b \in Browsers, r \in RegNos, n \in StudentNames, e \in Emails,
           c \in IdFields, p \in StudentPasswords, t \in BOOLEAN :
          admin_students_add(b, r, n, e, c, p, t)
    \/ \E b \in Browsers, i \in 1..MaxStudentId, t \in BOOLEAN :
          admin_students_delete(b, i, t)
    \/ \E b \in Browsers : admin_students_export(b)
    \/ \E b \in Browsers, f \in Files({r \in StudentRows : r.reg_no = "r2" /\ r.email = ""}),
           t \in BOOLEAN :
          admin_students_import(b, f, t)
    \/ \E b \in Browsers, n \in SubjectNames, c \in IdFields, t \in BOOLEAN :
          admin_subjects_add(b, n, c, t)
    \/ \E b \in Browsers, j \in 1..MaxSubjectId, t \in BOOLEAN :
          admin_subjects_delete(b, j, t)
    \/ \E b \in Browsers, i \in IdFields, j \in IdFields, m \in MarksFields,
           x \in MaxFields, t \in BOOLEAN :
          admin_results_add(b, i, j, m, x, t)
    \/ \E b \in Browsers, c \in IdFields : admin_results_export(b, c)
    \/ \E b \in Browsers, c \in 1..MaxClassId,
           f \in Files({r \in ResultRows : r.reg_no = "r1" /\ r.max_marks = "2"}), t \in BOOLEAN :
          admin_results_import(b, c, f, t)
    \/ \E b \in Browsers : admin_users(b)
    \/ \E b \in Browsers, u \in Usernames, p \in AdminPasswords, r \in Roles, t \in BOOLEAN :
          admin_users_add(b, u, p, r, t)
    \/ \E b \in Browsers, i \in 1..MaxUserId, t \in BOOLEAN :
          admin_users_delete(b, i, t)

SpecAnon == InitAnon /\ [][NextAnon]_vars

AdminOps == {"admin_classes_add", "admin_classes_delete", "admin_students_add",
             "admin_students_delete", "admin_students_export", "admin_students_import",
             "admin_subjects_add", "admin_subjects_delete", "admin_results_add",
             "admin_results_export", "admin_results_import", "admin_users",
             "admin_users_add", "admin_users_delete"}

\* C2: an admin operation asked for by a session that carries no
\* administrator identity changes no row of the store and returns no CSV:
\* the answer is the redirect to the admin login
C2_NonAdminDenied ==
    [][(resp'.op \in AdminOps /\ ~sessions[resp'.b].admin_logged_in)
       => /\ UNCHANGED store
          /\ resp' = Redirect(resp'.op, resp'.b, "admin_login", "Please login as admin.")]_vars

C2_Witness ==
    /\ resp.op = "admin_results_import"
    /\ resp.to = "admin_login"
    /\ sessions[resp.b].student_id # 0
    /\ ~sessions[resp.b].admin_logged_in
    /\ results # {}

(***************************************************************************)
(* The student portal: an administrator (b1) creates and deletes students  *)
(* and enters marks while students log in, look and log out                *)
(***************************************************************************)
InitPortal ==
    InitFrom([FreshStore EXCEPT !.classes = OneOfEach.classes,
                                !.subjects = OneOfEach.subjects],
             [b \in Browsers |-> IF b = "b1" THEN AdminSession ELSE NoSession], Clean)

NextPortal ==
    \/ \E r \in {"r1", "r2"} : admin_students_add("b1", r, "n1", "", "1", "p1", TRUE)
    \/ \E i \in 1..MaxStudentId : admin_students_delete("b1", i, TRUE)
    \/ \E i \in {"1", "2"} : admin_results_add("b1", i, "1", "1", "2", TRUE)
    \/ \E r \in {"r1", "r2"}, p \in {"p1", ""} : student_login("b2", r, p, TRUE)
    \/ student_portal("b2")
    \/ student_marksheet("b2")
    \/ student_logout("b2")

SpecPortal == InitPortal /\ [][NextPortal]_vars

\* C1: the page student_portal or student_marksheet hands to a session
\* shows the student who authenticated in that session and only Result
\* rows of that student
C1_OwnResultsOnly ==
    (resp.op \in {"student_portal", "student_marksheet"} /\ resp.status = 200)
    => /\ \A s \in resp.student : s.uid = sessions[resp.b].auth_uid
       /\ \A r \in resp.rows : \A s \in resp.student : r.student_id = s.id

\* C19: student_portal and student_marksheet answer with a page, a redirect
\* or a denial, never with an unhandled fault, also when the session's
\* student_id identifies no Student
C19_PortalNeverFaults ==
    resp.op \in {"student_portal", "student_marksheet"} => resp.status \in {200, 302, 403, 404}
(***************************************************************************)
(* Entering marks: an administrator adds results by form and by CSV file   *)
(* for the two students of one class                                       *)
(***************************************************************************)
TwoStudents ==
    [FreshStore EXCEPT
        !.classes = OneOfEach.classes,
        !.students = OneOfEach.students \cup
                     {[id |-> 2, reg_no |-> "r2", name |-> "n2", email |-> NULL,
                       password_hash |-> generate_password_hash("p1"), class_id |-> 1,
                       uid |-> 2]},
        !.subjects = OneOfEach.subjects]

InitResults ==
    InitFrom(TwoStudents, [b \in Browsers |-> IF b = "b1" THEN AdminSession ELSE NoSession],
             Clean)

\* files whose every cell is an integer and whose every row names a student
\* and a subject of class 1
MarkRows == [reg_no : {"r1", "r2"}, subject : {"m1"}, marks : {"0", "1"}, max_marks : {"2"}]

NextResults ==
    \/ \E i \in {"1", "2"}, m \in {"0", "1"} : admin_results_add("b1", i, "1", m, "2", TRUE)
    \/ \E f \in Files(MarkRows \cup {r \in ResultRows : r.marks = "x" /\ r.max_marks = "2"}) :
          admin_results_import("b1", 1, f, TRUE)
    \/ admin_results_export("b1", "1")
    \/ WorkerExit

SpecResults == InitResults /\ [][NextResults]_vars

\* the last row of the file that names the same pair as row i
LastFor(rows, i) ==
    CHOOSE k \in 1..Len(rows) :
        /\ rows[k].reg_no = rows[i].reg_no /\ rows[k].subject = rows[i].subject
        /\ \A n \in 1..Len(rows) :
              (rows[n].reg_no = rows[i].reg_no /\ rows[n].subject = rows[i].subject) => n <= k

\* C4: the store holds at most one Result per (student_id, subject_id), and
\* an import on a clean session of a file of integer cells leaves, for each
\* pair the file names (on one row or on several), exactly one Result that
\* carries the marks of the file's last row for the pair; a row that was
\* there before keeps its id
C4_OneResultPerPair ==
    [][/\ \A x, y \in results' :
            (x.student_id = y.student_id /\ x.subject_id = y.subject_id) => x = y
       /\ \A f \in Files(MarkRows) :
            (f.present /\ dbs = Clean /\ admin_results_import("b1", 1, f, TRUE))
            => /\ resp'.status = 302
               /\ \A i \in 1..Len(f.rows) :
                    LET t == CHOOSE t \in students : t.reg_no = f.rows[i].reg_no
                        j == CHOOSE j \in subjects : j.name = f.rows[i].subject
                        last == f.rows[LastFor(f.rows, i)]
                        now == {x \in results' : x.student_id = t.id /\ x.subject_id = j.id}
                        was == {x \in results : x.student_id = t.id /\ x.subject_id = j.id}
                    IN /\ Cardinality(now) = 1
                       /\ \A x \in now : /\ x.marks = IntOf[last.marks]
                                          /\ x.max_marks = IntOf[last.max_marks]
                       /\ \A x \in was : \E y \in now : y.id = x.id]_vars

\* C17: after every request the worker's database session holds no pending
\* object, no unflushed modification and no failed transaction
C17_SessionCleanAfterRequest == dbs = Clean
(***************************************************************************)
(* Registration numbers: an administrator adds students, well-formed or    *)
(* not, to a store that already holds student r1; results imports that     *)
(* fault leave the worker's database session in every state it can have    *)
(***************************************************************************)
InitDup ==
    InitFrom(OneOfEach, [b \in Browsers |-> IF b = "b1" THEN AdminSession ELSE NoSession],
             Clean)

\* the forms sent to admin_students_add: reg_no, name, class_id, password,
\* token (email left empty)
DupForms == [reg_no : {"r1", " r1 ", "r2"}, name : {"", "n2"}, class_id : {"1", "x"},
             password : {"", "p1"}, csrf : BOOLEAN]

NextDup ==
    \/ \E q \in DupForms :
          admin_students_add("b1", q.reg_no, q.name, "", q.class_id, q.password, q.csrf)
    \/ \E i \in 1..MaxStudentId : admin_students_delete("b1", i, TRUE)
    \/ \E f \in Files({r \in ResultRows : r.reg_no = "r2" /\ r.max_marks = "2"}) :
          admin_results_import("b1", 1, f, TRUE)
    \/ WorkerExit

SpecDup == InitDup /\ [][NextDup]_vars

\* C5: an admin_students_add whose reg_no, stripped, is the reg_no of a
\* Student in the store creates no Student and leaves every Student as it
\* was; when the form passes the checks that come before the insert (token,
\* name, password, an integer class_id) it ends with the duplicate warning
\* and a redirect
C5_DuplicateRegNo ==
    [][\A q \in DupForms :
         (/\ \E x \in students : x.reg_no = Strip(q.reg_no)
          /\ admin_students_add("b1", q.reg_no, q.name, "", q.class_id, q.password, q.csrf))
         => /\ students' = students
            /\ (q.csrf /\ Strip(q.name) # "" /\ q.password # "" /\ IsInt(q.class_id))
               => resp' = Redirect("admin_students_add", "b1", "admin_students",
                                   "Could not add student (maybe duplicate reg no/email)")]_vars

\* student r1 is still alone and as created after a well-formed add of
\* " r1 " under another name was answered with the duplicate warning
C5_Witness ==
    /\ resp.op = "admin_students_add"
    /\ resp.flash = "Could not add student (maybe duplicate reg no/email)"
    /\ students = OneOfEach.students

(***************************************************************************)
(* Deleting: an administrator deletes classes, students and subjects of a  *)
(* store that holds marks, between results imports and additions           *)
(***************************************************************************)
InitCascade ==
    InitFrom([TwoStudents EXCEPT !.results = OneOfEach.results],
             [b \in Browsers |-> IF b = "b1" THEN AdminSession ELSE NoSession], Clean)

NextCascade ==
    \/ admin_classes_add("b1", "X", "", TRUE)
    \/ \E c \in 1..MaxClassId : admin_classes_delete("b1", c, TRUE)
    \/ \E r \in {"r1", "r2"} : admin_students_add("b1", r, "n1", "", "1", "p1", TRUE)
    \/ \E i \in 1..MaxStudentId : admin_students_delete("b1", i, TRUE)
    \/ admin_subjects_add("b1", "m1", "1", TRUE)
    \/ \E j \in 1..MaxSubjectId : admin_subjects_delete("b1", j, TRUE)
    \/ \E i \in {"1", "2"} : admin_results_add("b1", i, "1", "1", "2", TRUE)
    \/ \E f \in Files({r \in ResultRows : r.max_marks = "2"}) :
          admin_results_import("b1", 1, f, TRUE)
    \/ WorkerExit

SpecCascade == InitCascade /\ [][NextCascade]_vars

\* C6: after an admin_classes_delete of an existing class that answers
\* "Class deleted", no Student of the class is in the store and no Result
\* refers to a student that was in the class
C6_ClassDeleteCascades ==
    [][\A c \in 1..MaxClassId :
         (/\ \E x \in classes : x.id = c
          /\ admin_classes_delete("b1", c, TRUE)
          /\ resp'.flash = "Class deleted")
         => /\ \A t \in students' : t.class_id # c
            /\ \A t \in students : t.class_id = c
                  => \A x \in results' : x.student_id # t.id]_vars

\* C7: after an admin_students_delete of an existing student that answers
\* "Student deleted" no Result of the student is in the store, after an
\* admin_subjects_delete of an existing subject that answers "Subject
\* deleted" no Result of the subject is, and the Results of the other
\* students and subjects are the ones that were there
C7_StudentSubjectDeleteCascade ==
    [][/\ \A i \in 1..MaxStudentId :
            (/\ \E t \in students : t.id = i
             /\ admin_students_delete("b1", i, TRUE)
             /\ resp'.flash = "Student deleted")
            => /\ \A x \in results' : x.student_id # i
               /\ results' = {x \in results : x.student_id # i}
       /\ \A j \in 1..MaxSubjectId :
            (/\ \E y \in subjects : y.id = j
             /\ admin_subjects_delete("b1", j, TRUE)
             /\ resp'.flash = "Subject deleted")
            => /\ \A x \in results' : x.subject_id # j
               /\ results' = {x \in results : x.subject_id # j}]_vars

(***************************************************************************)
(* Students CSV: an administrator adds classes and students by form and by *)
(* file, deletes them, and exports the students                            *)
(***************************************************************************)
InitCsv ==
    InitFrom(FreshStore, [b \in Browsers |-> IF b = "b1" THEN AdminSession ELSE NoSession],
             Clean)

\* rows of well-formed files: every column present
CsvRows == {r \in StudentRows : r.class_name # NULL}

NextCsv ==
    \/ \E s \in SectionNames : admin_classes_add("b1", "X", s, TRUE)
    \/ \E c \in 1..MaxClassId : admin_classes_delete("b1", c, TRUE)
    \/ \E r \in {"r1", "r2"}, e \in Emails, c \in {"1", "2"} :
          admin_students_add("b1", r, "n2", e, c, "p1", TRUE)
    \/ \E i \in 1..MaxStudentId : admin_students_delete("b1", i, TRUE)
    \/ \E f \in Files(CsvRows) : admin_students_import("b1", f, TRUE)
    \/ admin_students_export("b1")
    \/ WorkerExit

SpecCsv == InitCsv /\ [][NextCsv]_vars

\* the (reg_no, name, class name, section) of the students of a database
\* that have their class
StudentTuples(db) ==
    UNION {{<<s.reg_no, s.name, c.name, c.section>> :
               c \in {c \in db.classes : c.id = s.class_id}} : s \in db.students}

\* C12: the rows an export wrote, imported into an empty store, give the
\* (reg_no, name, class name, section) tuples of the exported students, one
\* ClassRoom per distinct exported (class_name, section), and an email or a
\* section that was absent is absent again
C12_RoundTrip ==
    (resp.op = "admin_students_export" /\ resp.status = 200)
    => LET back == ImportStudents(FreshStore, Clean, resp.csv)
           exported == {s \in students : \E c \in classes : c.id = s.class_id}
       IN /\ back.ok
          /\ StudentTuples(back.db) = StudentTuples(DB)
          /\ Cardinality(back.db.students) = Cardinality(exported)
          /\ Cardinality(back.db.classes) =
                Cardinality({<<t[3], t[4]>> : t \in StudentTuples(DB)})
          /\ \A s \in exported : \E t \in back.db.students :
                t.reg_no = s.reg_no /\ t.email = s.email

\* two students were exported, one without email, in classes with and
\* without section
C12_Witness ==
    /\ resp.op = "admin_students_export" /\ resp.status = 200
    /\ Len(resp.csv) = 2
    /\ \E i, k \in 1..2 : /\ resp.csv[i].section = "" /\ resp.csv[k].section = "A"
                          /\ resp.csv[i].email = "" /\ resp.csv[k].email = "e1"
    /\ \E c \in classes : c.section = NULL

\* C20: no two ClassRoom rows have the same name and the same section, an
\* absent section counting as a section
C20_ClassPairUnique ==
    \A c, d \in classes : (c.name = d.name /\ c.section = d.section) => c = d
TwoClasses ==
    [FreshStore EXCEPT
        !.classes = {[id |-> 1, name |-> "X", section |-> NULL],
                     [id |-> 2, name |-> "X", section |-> "A"]},
        !.students = {[id |-> 1, reg_no |-> "r1", name |-> "n1", email |-> NULL,
                       password_hash |-> generate_password_hash("p1"), class_id |-> 1,
                       uid |-> 1],
                      [id |-> 2, reg_no |-> "r2", name |-> "n2", email |-> NULL,
                       password_hash |-> generate_password_hash("p1"), class_id |-> 2,
                       uid |-> 2]},
        !.subjects = {[id |-> 1, name |-> "m1", class_id |-> 1],
                      [id |-> 2, name |-> "m1", class_id |-> 2]}]

InitScope ==
    InitFrom(TwoClasses, [b \in Browsers |-> IF b = "b1" THEN AdminSession ELSE NoSession],
             Clean)

ScopeRows == [reg_no : {"r1", "r2"}, subject : {"m1"}, marks : {"0", "1", "x"},
              max_marks : {"2"}]

NextScope ==
    \/ \E c \in 1..MaxClassId, f \in Files(ScopeRows) : admin_results_import("b1", c, f, TRUE)
    \/ \E c \in {"1", "2"} : admin_results_export("b1", c)
    \/ WorkerExit

SpecScope == InitScope /\ [][NextScope]_vars

\* row names a Student and a Subject of class c
Resolves(row, c) ==
    /\ \E t \in students : t.class_id = c /\ t.reg_no = row.reg_no
    /\ \E j \in subjects : j.class_id = c /\ j.name = row.subject

\* C14: an admin_results_import for class c creates or changes a Result
\* only for a student and a subject of c that a row of the file names, and
\* the rows that do not resolve within c count for nothing: the import does
\* what the import of the file without them does
C14_ImportWithinClass ==
    [][\A c \in 1..MaxClassId, f \in Files(ScopeRows) :
         (f.present /\ admin_results_import("b1", c, f, TRUE))
         => /\ \A x \in results' \ results :
                 \E i \in 1..Len(f.rows) :
                    /\ Resolves(f.rows[i], c)
                    /\ \E t \in students : /\ t.id = x.student_id /\ t.class_id = c
                                           /\ t.reg_no = f.rows[i].reg_no
                    /\ \E j \in subjects : /\ j.id = x.subject_id /\ j.class_id = c
                                           /\ j.name = f.rows[i].subject
            /\ admin_results_import("b1", c,
                   [f EXCEPT !.rows = SelectSeq(f.rows, LAMBDA r : Resolves(r, c))], TRUE)]_vars

(***************************************************************************)
(* Files of every content: an administrator uploads student and result     *)
(* files whose rows repeat keys, lack a column or carry non-numeric marks  *)
(***************************************************************************)
InitImports ==
    InitFrom(OneOfEach, [b \in Browsers |-> IF b = "b1" THEN AdminSession ELSE NoSession],
             Clean)

NextImports ==
    \/ \E f \in Files({r \in StudentRows : r.email = "" /\ r.section = ""}) :
          admin_students_import("b1", f, TRUE)
    \/ \E f \in Files(ResultRows) : admin_results_import("b1", 1, f, TRUE)
    \/ WorkerExit

SpecImports == InitImports /\ [][NextImports]_vars

\* C15: an admin_students_import or admin_results_import of an uploaded
\* file, on a worker whose session is clean, ends with its success report
\* whatever the rows hold, never with an unhandled fault
C15_ImportsNeverFault ==
    [][(/\ resp'.op \in {"admin_students_import", "admin_results_import"}
        /\ dbs = Clean
        /\ resp'.flash # "No file uploaded")
       => /\ resp'.status = 302
          /\ resp'.flash \in {"Imported students", "Imported/updated results"}]_vars

(***************************************************************************)
(* Two administrators at once: each admin_results_add runs on a thread of  *)
(* its own, and the lookups and the commits of the two interleave          *)
(***************************************************************************)
InitConc == InitFrom(TwoStudents, [b \in Browsers |-> AdminSession], Clean)

NextConc ==
    \/ \E b \in Browsers, i \in {"1", "2"}, m \in {"0", "1"} :
          admin_results_add_lookup(b, i, "1", m, "2")
    \/ \E b \in Browsers : admin_results_add_commit(b)

SpecConc == InitConc /\ [][NextConc]_vars

\* C16: when a request that found no Result for its pair commits, also
\* after another request has committed a Result for the pair in between,
\* exactly one Result for the pair is in the store afterwards and the
\* request ends with a redirect, not with an unhandled fault
C16_ConcurrentUpsert ==
    [][\A b \in Browsers :
         (/\ inflight[b] # {}
          /\ \A q \in inflight[b] : q.existing = {}
          /\ admin_results_add_commit(b))
         => \A q \in inflight[b] :
              /\ Cardinality({x \in results' : /\ x.student_id = q.student_id
                                               /\ x.subject_id = q.subject_id}) = 1
              /\ resp'.status = 302]_vars

(***************************************************************************)
(* Create forms: an administrator sends each create form complete, and     *)
(* with one field missing or malformed                                     *)
(***************************************************************************)
InitForms ==
    InitFrom(OneOfEach, [b \in Browsers |-> IF b = "b1" THEN AdminSession ELSE NoSession],
             Clean)

ClassForms == {[name |-> "X", section |-> "A"], [name |-> "", section |-> "A"],
               [name |-> "", section |-> ""]}

StudentForms ==
    LET good == [reg_no |-> "r2", name |-> "n2", class_id |-> "1", password |-> "p1"]
    IN {good, [good EXCEPT !.reg_no = ""], [good EXCEPT !.name = ""],
        [good EXCEPT !.password = ""], [good EXCEPT !.class_id = ""],
        [good EXCEPT !.class_id = "x"]}

SubjectForms ==
    LET good == [name |-> "m1", class_id |-> "2"]
    IN {good, [good EXCEPT !.name = ""], [good EXCEPT !.class_id = ""],
        [good EXCEPT !.class_id = "x"]}

ResultForms ==
    LET good == [student_id |-> "1", subject_id |-> "1", marks |-> "0", max_marks |-> "2"]
    IN {good} \cup {[good EXCEPT ![k] = v] :
                       k \in {"student_id", "subject_id", "marks", "max_marks"},
                       v \in {"", "x"}}

NextForms ==
    \/ \E q \in ClassForms : admin_classes_add("b1", q.name, q.section, TRUE)
    \/ \E q \in StudentForms :
          admin_students_add("b1", q.reg_no, q.name, "", q.class_id, q.password, TRUE)
    \/ \E q \in SubjectForms : admin_subjects_add("b1", q.name, q.class_id, TRUE)
    \/ \E q \in ResultForms :
          admin_results_add("b1", q.student_id, q.subject_id, q.marks, q.max_marks, TRUE)
    \/ \E i \in 1..MaxStudentId : admin_students_delete("b1", i, TRUE)
    \/ \E j \in 1..MaxSubjectId : admin_subjects_delete("b1", j, TRUE)
    \/ \E c \in 1..MaxClassId : admin_classes_delete("b1", c, TRUE)

SpecForms == InitForms /\ [][NextForms]_vars

\* the answer to a form that lacks a field: a warning and a redirect
Warned == resp'.status = 302 /\ resp'.flash \in {"All fields are required",
                                                 "Class name is required"}

\* C18: a create form with a required field empty, missing or not an
\* integer where one is needed writes nothing to the store and is answered
\* with a warning and a redirect
C18_MalformedFormsWarned ==
    [][/\ \A q \in ClassForms :
            (Strip(q.name) = "" /\ admin_classes_add("b1", q.name, q.section, TRUE))
            => (UNCHANGED store /\ Warned)
       /\ \A q \in StudentForms :
            (/\ \/ Strip(q.reg_no) = "" \/ Strip(q.name) = "" \/ q.password = ""
                \/ ~IsInt(q.class_id)
             /\ admin_students_add("b1", q.reg_no, q.name, "", q.class_id, q.password, TRUE))
            => (UNCHANGED store /\ Warned)
       /\ \A q \in SubjectForms :
            (/\ Strip(q.name) = "" \/ ~IsInt(q.class_id)
             /\ admin_subjects_add("b1", q.name, q.class_id, TRUE))
            => (UNCHANGED store /\ Warned)
       /\ \A q \in ResultForms :
            (/\ \E k \in {"student_id", "subject_id", "marks", "max_marks"} : ~IsInt(q[k])
             /\ admin_results_add("b1", q.student_id, q.subject_id, q.marks, q.max_marks,
                                  TRUE))
            => (UNCHANGED store /\ Warned)]_vars

(***************************************************************************)
(* Subjects under app1.py: an administrator adds and deletes subjects of   *)
(* two classes in a database that app1.py's init_db created                *)
(***************************************************************************)
App1Session == [NoSession EXCEPT !.admin_logged_in = TRUE, !.admin_name = "admin"]

InitApp1 ==
    InitFrom([FreshStore EXCEPT
                 !.classes = {[id |-> 1, name |-> "X", section |-> NULL],
                              [id |-> 2, name |-> "X", section |-> "A"]}],
             [b \in Browsers |-> IF b = "b1" THEN App1Session ELSE NoSession],
             Clean)

NextApp1 ==
    \/ \E b \in Browsers, n \in {"", "m1", "m2"}, c \in IdFields :
          app1_admin_subjects_add(b, n, c)
    \/ \E b \in Browsers, j \in 1..MaxSubjectId : app1_admin_subjects_delete(b, j)
    \/ \E b \in Browsers, u \in Usernames, p \in AdminPasswords : app1_admin_login(b, u, p)

SpecApp1 == InitApp1 /\ [][NextApp1]_vars

\* C21: no two Subject rows of one class have the same name (here for the
\* subjects that app1.py's admin_subjects_add stores)
C21_SubjectNamePerClass ==
    \A s, t \in subjects : (s.name = t.name /\ s.class_id = t.class_id) => s = t

\* C22: every Student.class_id and every Subject.class_id is the id of a
\* ClassRoom row in the store
C22_ClassIdsExist ==
    /\ \A s \in students : \E c \in classes : c.id = s.class_id
    /\ \A j \in subjects : \E c \in classes : c.id = j.class_id

(***************************************************************************)
(* User management: administrators log in, add users of any role value,    *)
(* and delete users, every form carrying its CSRF token                    *)
(***************************************************************************)
NextAccounts ==
    \/ \E b \in Browsers, u \in Usernames, p \in AdminPasswords : admin_login(b, u, p, TRUE)
    \/ \E b \in Browsers : admin_logout(b)
    \/ \E b \in Browsers : admin_users(b)
    \/ \E b \in Browsers, u \in Usernames \cup {" admin "}, r \in Roles \cup {"guest"} :
          admin_users_add(b, u, "pw", r, TRUE)
    \/ \E b \in Browsers, i \in 1..MaxUserId : admin_users_delete(b, i, TRUE)

SpecAccounts == Init /\ [][NextAccounts]_vars

\* C23: after every step exactly one AdminUser has the username 'admin',
\* and an admin_users_delete aimed at it changes no user and does not
\* report a deletion
C23_AdminAlwaysExists ==
    [][/\ Cardinality({u \in users' : u.username = "admin"}) = 1
       /\ \A b \in Browsers, i \in 1..MaxUserId :
             ((\E u \in users : u.id = i /\ u.username = "admin")
                 /\ admin_users_delete(b, i, TRUE))
             => (users' = users /\ resp'.flash # "User deleted")]_vars

\* an administrator's delete was refused with 400 while user 2 exists: the
\* request named the user 'admin'
C23_Witness ==
    /\ resp.op = "admin_users_delete" /\ resp.status = 400
    /\ \E u \in users : u.id = 2
    /\ \E u \in users : u.username = "admin"

\* C24: the role of every AdminUser is 'admin' or 'staff'
C24_RolesKnown == \A u \in users : u.role \in Roles

(***************************************************************************)
(* Listing students: an administrator pages through a store of up to       *)
(* MaxMatch students with the page and per-page arguments of the request   *)
(***************************************************************************)
MaxMatch == 23

PagedStore(n) ==
    [FreshStore EXCEPT
        !.classes = {[id |-> 1, name |-> "X", section |-> NULL]},
        !.students = {[id |-> i, uid |-> i, reg_no |-> ToString(i), name |-> "n1",
                       email |-> NULL, class_id |-> 1,
                       password_hash |-> generate_password_hash("p1")] : i \in 1..n}]

InitPages ==
    \E n \in 0..MaxMatch :
        InitFrom(PagedStore(n),
                 [b \in Browsers |-> IF b = "b1" THEN AdminSession ELSE NoSession], Clean)

PageArgs == {<<>>, <<0>>, <<1>>, <<2>>, <<3>>, <<4>>}
PerPageArgs == {<<>>, <<-1>>, <<0>>, <<1>>, <<2>>, <<10>>}

NextPages ==
    \E b \in Browsers, page \in PageArgs, pp \in PerPageArgs : admin_students(b, "", page, pp)

SpecPages == InitPages /\ [][NextPages]_vars

\* the students shown on pages 1..k of a listing of M with pp per page
ShownUpTo(M, k, pp) == UNION {Shown(M, p, pp) : p \in 1..k}

\* C25: the 'more pages' flag of a listing is true exactly when some later
\* page shows a matching student that pages 1..page did not show, which is
\* exactly when page * pp < N; with 23 students and 10 per page the flag is
\* true on pages 1 and 2 and false on page 3
C25_HasMoreIffLaterPage ==
    (resp.op = "admin_students" /\ resp.status = 200)
    => LET N == resp.count
           M == Matching(resp.q)
           later == \E p \in (resp.page + 1)..(resp.page + N + 1) :
                       Shown(M, p, resp.pp) \ ShownUpTo(M, resp.page, resp.pp) # {}
       IN /\ resp.has_more <=> later
          /\ resp.has_more <=> resp.page * resp.pp < N
          /\ (N = 23 /\ resp.pp = 10)
                => /\ resp.page \in {1, 2} => resp.has_more
                   /\ resp.page = 3 => ~resp.has_more

\* the same for the requests whose per-page value is at least 1
C25_HasMoreIffLaterPagePositive ==
    (resp.op = "admin_students" /\ resp.status = 200 /\ resp.pp >= 1)
    => LET N == resp.count
           M == Matching(resp.q)
           later == \E p \in (resp.page + 1)..(resp.page + N + 1) :
                       Shown(M, p, resp.pp) \ ShownUpTo(M, resp.page, resp.pp) # {}
       IN /\ resp.has_more <=> later
          /\ resp.has_more <=> resp.page * resp.pp < N

(***************************************************************************)
(* Searching students: an administrator searches a store of two students   *)
(* ('r1', 'ab') and ('R3', 'a_b') and deletes students                     *)
(***************************************************************************)
SearchStore ==
    [FreshStore EXCEPT
        !.classes = {[id |-> 1, name |-> "X", section |-> NULL]},
        !.students = {[id |-> 1, uid |-> 1, reg_no |-> "r1", name |-> "ab",
                       email |-> NULL, class_id |-> 1,
                       password_hash |-> generate_password_hash("p1")],
                      [id |-> 2, uid |-> 2, reg_no |-> "R3", name |-> "a_b",
                       email |-> NULL, class_id |-> 1,
                       password_hash |-> generate_password_hash("p1")]}]

InitSearch ==
    InitFrom(SearchStore,
             [b \in Browsers |-> IF b = "b1" THEN AdminSession ELSE NoSession], Clean)

SearchStrings == {"", " ", "a", "B", "_", "%", "_b", "r", "3", " r1 "}

NextSearch ==
    \/ \E b \in Browsers, q \in SearchStrings, page \in {<<>>, <<2>>},
          pp \in {<<>>, <<1>>} : admin_students(b, q, page, pp)
    \/ \E i \in 1..MaxStudentId : admin_students_delete("b1", i, TRUE)

SpecSearch == InitSearch /\ [][NextSearch]_vars

\* text contains q, letter case aside
Contains(text, q) ==
    \E i \in 1..(Len(text) - Len(q) + 1) :
        SubSeq(Lower(text), i, i + Len(q) - 1) = Lower(q)

\* the students whose name or registration number contains q
LiteralMatches(q) ==
    {s \in students : Contains(Chars[s.name], Chars[q]) \/ Contains(Chars[s.reg_no], Chars[q])}

\* C26: a search with a non-empty string q counts exactly the students whose
\* name or registration number contains q, letter case aside, and its first
\* page of ten shows them
C26_SearchIsSubstring ==
    (resp.op = "admin_students" /\ resp.status = 200 /\ resp.q # NULL)
    => /\ resp.count = Cardinality(LiteralMatches(resp.q))
       /\ (resp.page = 1 /\ resp.pp = 10) => resp.rows = LiteralMatches(resp.q)

\* the same for the search strings without '%' and '_'
C26_SearchWithoutWildcards ==
    (resp.op = "admin_students" /\ resp.status = 200 /\ resp.q \notin {NULL, "_", "%", "_b"})
    => /\ resp.count = Cardinality(LiteralMatches(resp.q))
       /\ (resp.page = 1 /\ resp.pp = 10) => resp.rows = LiteralMatches(resp.q)

(***************************************************************************)
(* Importing again: an administrator imports result files for class 1,     *)
(* which has two students and one subject                                  *)
(***************************************************************************)
InitAgain ==
    InitFrom(TwoStudents, [b \in Browsers |-> IF b = "b1" THEN AdminSession ELSE NoSession],
             Clean)

AgainRows == {r \in ScopeRows : r.reg_no = "r1" \/ r.marks = "1"}

NextAgain ==
    \/ \E f \in Files(AgainRows) : admin_results_import("b1", 1, f, TRUE)
    \/ \E i \in 1..MaxStudentId : admin_students_delete("b1", i, TRUE)
    \/ WorkerExit

SpecAgain == InitAgain /\ [][NextAgain]_vars

\* the database after an admin_results_import of rows for class_id in the
\* current state; the current database when the request faults
ImportedResults(class_id, rows) ==
    LET acc == ImportResultRows(rows, class_id,
                   [ok |-> TRUE, new |-> <<>>, dirty |-> dbs.dirty, up |-> 0])
        f == Flush(DB, [NoNew EXCEPT !.results = dbs.new \o acc.new], acc.dirty, NoDel)
    IN IF dbs.failed \/ ~acc.ok \/ ~f.ok THEN DB ELSE f.db

C28_ResultRefsSameClass ==
    \A x \in results :
        \E s \in students, j \in subjects :
            /\ s.id = x.student_id /\ j.id = x.subject_id
            /\ s.class_id = j.class_id
            /\ \E c \in classes : c.id = s.class_id

(***************************************************************************)
(* Marks of any size: an administrator stores results through the form and *)
(* through files for class 1 while student 1 reads the portal              *)
(***************************************************************************)
InitMarks ==
    InitFrom(TwoStudents,
             [b \in Browsers |-> IF b = "b1" THEN AdminSession
                                 ELSE [NoSession EXCEPT !.student_id = 1, !.auth_uid = 1]],
             Clean)

AnyMarkRows == [reg_no : {"r1", "r2"}, subject : {"m1"}, marks : {"2"}, max_marks : {"0", "1"}]

NextMarks ==
    \/ \E i \in {"1", "2"}, m \in {"0", "2", "100"}, x \in {"0", "1", "2"} :
          admin_results_add("b1", i, "1", m, x, TRUE)
    \/ \E f \in Files(AnyMarkRows) : admin_results_import("b1", 1, f, TRUE)
    \/ student_portal("b2")

SpecMarks == InitMarks /\ [][NextMarks]_vars

\* C29: every stored Result has max_marks >= 1 and 0 <= marks <= max_marks,
\* and the percentage the portal shows lies between 0 and 100
C29_MarksWithinMax ==
    /\ \A x \in results : x.max_marks >= 1 /\ 0 <= x.marks /\ x.marks <= x.max_marks
    /\ (resp.op = "student_portal" /\ resp.status = 200)
          => (0 <= resp.totals[3] /\ resp.totals[3] <= 10000)

\* C30: a session that passes the administrator gate was established by
\* the login of an AdminUser that is still in the store
C30_DeletedUserLocksOut ==
    \A b \in Browsers :
        is_admin_logged_in(b) => \E u \in users : u.username = sessions[b].admin_name

====
